---- MODULE Spec2Model ----
(***************************************************************************)
(* The batched scene renderer of tuber_graphics_opengl (src/src/lib.rs):   *)
(* GLSceneRenderer::render_scene walks a scene graph, tessellates every    *)
(* node into meshes, sorts the meshes by their attributes, packs them into *)
(* render batches and draws every batch with one indexed draw call.        *)
(*                                                                         *)
(* Representation.                                                         *)
(*  - An f32 is a fixed-point integer counting 1/1024ths (F32, FDiv); all  *)
(*    values of the model are multiples of 1/1024 small enough to be exact *)
(*    in an f32.                                                           *)
(*  - Option<String> is <<>> (None) or <<s>> (Some(s)).                    *)
(*  - A scene graph is a tree of nodes 1..n with root 1; the children of a *)
(*    node iterate in ascending node number.  Node identifiers are         *)
(*    numbers: the code only compares them for equality.                   *)
(*  - A GPU buffer is the sequence of the elements written into its data   *)
(*    store, slot by slot.                                                 *)
(***************************************************************************)
EXTENDS Integers, Sequences, FiniteSets, TLC

\* ------------------------------------------------------------------ bounds

\* Largest number of nodes of a scene graph.
MaxNodes == 3

\* Size in bytes of the two buffers of a batch.  The source sets 100000
\* (src/src/lib.rs:337); the model scales it down so that the scenes within
\* MaxNodes fill a batch: 3 quads of 4 vertices fit, a 4th does not.
MAX_BATCH_SIZE == 400

\* Largest width, height and coordinate of the nodes tessellated one by one.
MaxExtent == 2

\* Largest number of characters of the text nodes tessellated one by one.
MaxTextLen == 3

\* Largest number of calls client code makes on a Mesh, a
\* MeshAttributesBuilder or a RenderBatch.
MaxCalls == 4

\* Largest number of nodes of the scene graphs whose traversal order is
\* checked.
MaxGraphNodes == 4

\* Largest number of nodes of the scene graphs whose traversal is checked to
\* terminate.
MaxCyclicNodes == 3

\* Largest number of meshes of a pending list sorted on its own.
MaxMeshes == 3

\* ------------------------------------------------------------ GL constants

TRIANGLES == 4
LINES == 1

\* std::mem::size_of::<Vertex>(): 8 f32
SizeOfVertex == 32
\* std::mem::size_of::<gl::types::GLuint>()
SizeOfIndex == 4

\* ------------------------------------------------------------- arithmetic

F32(n) == n * 1024
FDiv(a, b) == (a * 1024) \div b

Max(S) == CHOOSE x \in S : \A y \in S : y <= x

Range(s) == {s[i] : i \in 1..Len(s)}

RECURSIVE Concat(_)
Concat(ss) == IF ss = <<>> THEN <<>> ELSE Head(ss) \o Concat(Tail(ss))

RECURSIVE Sum(_)
Sum(s) == IF s = <<>> THEN 0 ELSE Head(s) + Sum(Tail(s))

\* ----------------------------------------------------------- identifiers

None == <<>>
Some(s) == <<s>>

\* The resource identifiers of the model, in the order of String's Ord
\* (byte-wise lexicographic).
Identifiers == <<"64x64", "64x64b", "default_font2", "missing_font">>

IdentifierRank(s) == CHOOSE i \in 1..Len(Identifiers) : Identifiers[i] = s

\* Ord for Option<String>: None < Some(_), Some(a) < Some(b) iff a < b
OptionLess(a, b) ==
    IF a = None THEN b # None
    ELSE b # None /\ IdentifierRank(a[1]) < IdentifierRank(b[1])

\* ------------------------------------------------------- MeshAttributes

MeshAttributesBuilder_new ==
    [texture_identifier |-> None, font_identifier |-> None, draw_mode |-> TRIANGLES]

\* Mutant: the setter of the texture writes the font identifier as well.
MeshAttributesBuilder_texture_AndFont(self, texture_identifier) ==
    [self EXCEPT !.texture_identifier = Some(texture_identifier),
                 !.font_identifier = Some(texture_identifier)]

MeshAttributesBuilder_texture(self, texture_identifier) ==
    [self EXCEPT !.texture_identifier = Some(texture_identifier)]

\* Mutant: the setter of the font writes the texture identifier.
MeshAttributesBuilder_font_SetsTexture(self, font_identifier) ==
    [self EXCEPT !.texture_identifier = Some(font_identifier)]

MeshAttributesBuilder_font(self, font_identifier) ==
    [self EXCEPT !.font_identifier = Some(font_identifier)]

MeshAttributesBuilder_draw_mode(self, draw_mode) ==
    [self EXCEPT !.draw_mode = draw_mode]

MeshAttributesBuilder_build(self) ==
    [texture_identifier |-> self.texture_identifier,
     font_identifier |-> self.font_identifier,
     draw_mode |-> self.draw_mode]

MeshAttributes_defaults ==
    [texture_identifier |-> None, font_identifier |-> None, draw_mode |-> TRIANGLES]

\* Mutant: the draw mode is compared first, then the texture and the font.
AttributesLess_DrawModeFirst(a, b) ==
    \/ a.draw_mode < b.draw_mode
    \/ /\ a.draw_mode = b.draw_mode
       /\ \/ OptionLess(a.texture_identifier, b.texture_identifier)
          \/ /\ a.texture_identifier = b.texture_identifier
             /\ OptionLess(a.font_identifier, b.font_identifier)

\* #[derive(Ord)]: lexicographic in the order the fields are declared:
\* texture_identifier, font_identifier, draw_mode.
AttributesLess(a, b) ==
    \/ OptionLess(a.texture_identifier, b.texture_identifier)
    \/ /\ a.texture_identifier = b.texture_identifier
       /\ \/ OptionLess(a.font_identifier, b.font_identifier)
          \/ /\ a.font_identifier = b.font_identifier
             /\ a.draw_mode < b.draw_mode

\* ------------------------------------------------------- Vertex and Mesh

Vertex_with_values(position, color, texture_coordinates) ==
    [position |-> position, color |-> color,
     texture_coordinates |-> texture_coordinates]

Mesh_new(attributes) ==
    [vertices |-> <<>>, indices |-> <<>>, attributes |-> attributes]

\* Mutant: the vertices replace those of the mesh.
Mesh_add_vertices_Replaces(self, vertices) ==
    [self EXCEPT !.vertices = vertices]

Mesh_add_vertices(self, vertices) ==
    [self EXCEPT !.vertices = self.vertices \o vertices]

Mesh_add_indices(self, indices) ==
    [self EXCEPT !.indices = self.indices \o indices]

\* ------------------------------------------------------ resource stores

FontCharacterMetadata_new(x_coordinate, y_coordinate, width, height, x_offset, y_offset, x_advance) ==
    [x_coordinate |-> x_coordinate, y_coordinate |-> y_coordinate,
     width |-> width, height |-> height,
     x_offset |-> x_offset, y_offset |-> y_offset, x_advance |-> x_advance]

\* The glyphs of the font of the model: 'a' and 'b' (atlas pixels); the
\* advance of a glyph differs from its width.
GlyphA == FontCharacterMetadata_new(F32(0), F32(0), F32(10), F32(12),
                                    F32(1), F32(2), F32(11))
GlyphB == FontCharacterMetadata_new(F32(10), F32(0), F32(8), F32(14),
                                    F32(1), F32(0), F32(9))

\* Font::new followed by add_character for every glyph
Font_new(texture, characters) ==
    [metadata |-> [characters |-> characters], texture |-> texture]

\* ResourceStore<Font> and ResourceStore<Texture> as set up before the first
\* frame: one font, one texture.
font_store ==
    [i \in {"default_font2"} |->
        Font_new("atlas:default_font2", [c \in {"a", "b"} |-> IF c = "a" THEN GlyphA ELSE GlyphB])]

texture_store == [i \in {"64x64"} |-> "texture:64x64"]

\* Mutant: an identifier that is not in the store yields some resource of it.
ResourceStore_get_Any(store, identifier) ==
    IF identifier \in DOMAIN store THEN Some(store[identifier])
    ELSE Some(store[CHOOSE i \in DOMAIN store : TRUE])

\* ResourceStore::get
ResourceStore_get(store, identifier) ==
    IF identifier \in DOMAIN store THEN Some(store[identifier]) ELSE None

\* Mutant: a character that is not in the font yields the glyph of another.
FontMetadata_character_Fallback(self, character) ==
    IF character \in DOMAIN self.characters
        THEN Some(self.characters[character])
        ELSE Some(self.characters[CHOOSE c \in DOMAIN self.characters : TRUE])

\* FontMetadata::character
FontMetadata_character(self, character) ==
    IF character \in DOMAIN self.characters
        THEN Some(self.characters[character]) ELSE None

\* ------------------------------------------------------------ tessellation
\* Every render_*_node yields [meshes, panicked]: the meshes it pushes onto
\* pending_meshes, in order, and whether it ends in a panic (unwrap of None).

QuadIndices == <<0, 1, 2, 2, 0, 3>>

\* Mutant: the vertices are white whatever the color of the rectangle.
render_rectangle_node_White(rectangle) ==
    LET white == <<F32(1), F32(1), F32(1)>>
        vertices == <<
            Vertex_with_values(<<F32(0), F32(0), F32(0)>>, white, <<F32(0), F32(0)>>),
            Vertex_with_values(<<F32(0), rectangle.height, F32(0)>>, white, <<F32(0), F32(1)>>),
            Vertex_with_values(<<rectangle.width, rectangle.height, F32(0)>>, white, <<F32(1), F32(1)>>),
            Vertex_with_values(<<rectangle.width, F32(0), F32(0)>>, white, <<F32(1), F32(0)>>) >>
        mesh == Mesh_add_indices(
                    Mesh_add_vertices(Mesh_new(MeshAttributes_defaults), vertices),
                    QuadIndices)
    IN [meshes |-> <<mesh>>, panicked |-> FALSE]

render_rectangle_node(rectangle) ==
    LET c == rectangle.color
        vertices == <<
            Vertex_with_values(<<F32(0), F32(0), F32(0)>>, <<c[1], c[2], c[3]>>, <<F32(0), F32(0)>>),
            Vertex_with_values(<<F32(0), rectangle.height, F32(0)>>, <<c[1], c[2], c[3]>>, <<F32(0), F32(1)>>),
            Vertex_with_values(<<rectangle.width, rectangle.height, F32(0)>>, <<c[1], c[2], c[3]>>, <<F32(1), F32(1)>>),
            Vertex_with_values(<<rectangle.width, F32(0), F32(0)>>, <<c[1], c[2], c[3]>>, <<F32(1), F32(0)>>) >>
        mesh == Mesh_add_indices(
                    Mesh_add_vertices(Mesh_new(MeshAttributes_defaults), vertices),
                    QuadIndices)
    IN [meshes |-> <<mesh>>, panicked |-> FALSE]

\* Mutant: the texture coordinates are left at (0, 0).
render_sprite_node_NoTextureCoordinates(sprite) ==
    LET mesh_attributes == MeshAttributesBuilder_build(
            MeshAttributesBuilder_texture(MeshAttributesBuilder_new,
                                          sprite.texture_identifier))
        white == <<F32(1), F32(1), F32(1)>>
        vertices == <<
            Vertex_with_values(<<F32(0), F32(0), F32(0)>>, white, <<F32(0), F32(0)>>),
            Vertex_with_values(<<F32(0), sprite.height, F32(0)>>, white, <<F32(0), F32(0)>>),
            Vertex_with_values(<<sprite.width, sprite.height, F32(0)>>, white, <<F32(0), F32(0)>>),
            Vertex_with_values(<<sprite.width, F32(0), F32(0)>>, white, <<F32(0), F32(0)>>) >>
        mesh == Mesh_add_indices(
                    Mesh_add_vertices(Mesh_new(mesh_attributes), vertices),
                    QuadIndices)
    IN [meshes |-> <<mesh>>, panicked |-> FALSE]

render_sprite_node(sprite) ==
    LET mesh_attributes == MeshAttributesBuilder_build(
            MeshAttributesBuilder_texture(MeshAttributesBuilder_new,
                                          sprite.texture_identifier))
        white == <<F32(1), F32(1), F32(1)>>
        vertices == <<
            Vertex_with_values(<<F32(0), F32(0), F32(0)>>, white, <<F32(0), F32(0)>>),
            Vertex_with_values(<<F32(0), sprite.height, F32(0)>>, white, <<F32(0), F32(1)>>),
            Vertex_with_values(<<sprite.width, sprite.height, F32(0)>>, white, <<F32(1), F32(1)>>),
            Vertex_with_values(<<sprite.width, F32(0), F32(0)>>, white, <<F32(1), F32(0)>>) >>
        mesh == Mesh_add_indices(
                    Mesh_add_vertices(Mesh_new(mesh_attributes), vertices),
                    QuadIndices)
    IN [meshes |-> <<mesh>>, panicked |-> FALSE]

tw == F32(1024)
th == F32(1024)

\* Mutant: the configuration names the font as its texture.
TextCharacterMesh_TextureTagged(character_metadata, font_identifier, cursor_offset) ==
    LET mesh_attributes == MeshAttributesBuilder_build(
            MeshAttributesBuilder_texture(MeshAttributesBuilder_new, font_identifier))
        x == FDiv(character_metadata.x_coordinate, tw)
        y == FDiv(-character_metadata.y_coordinate, th)
        y_off == FDiv(-character_metadata.y_offset, th)
        w == FDiv(character_metadata.width, tw)
        h == FDiv(-character_metadata.height, th)
        white == <<F32(1), F32(1), F32(1)>>
        vertices == <<
            Vertex_with_values(<<cursor_offset, y_off, F32(0)>>, white, <<x, y>>),
            Vertex_with_values(<<cursor_offset, y_off + h, F32(0)>>, white, <<x, y + h>>),
            Vertex_with_values(<<cursor_offset + w, y_off + h, F32(0)>>, white, <<x + w, y + h>>),
            Vertex_with_values(<<cursor_offset + w, y_off, F32(0)>>, white, <<x + w, y>>) >>
    IN Mesh_add_indices(
           Mesh_add_vertices(Mesh_new(mesh_attributes), vertices), QuadIndices)

\* The quad of one character of a text node, at cursor_offset.
TextCharacterMesh(character_metadata, font_identifier, cursor_offset) ==
    LET mesh_attributes == MeshAttributesBuilder_build(
            MeshAttributesBuilder_font(MeshAttributesBuilder_new, font_identifier))
        x == FDiv(character_metadata.x_coordinate, tw)
        y == FDiv(-character_metadata.y_coordinate, th)
        y_off == FDiv(-character_metadata.y_offset, th)
        w == FDiv(character_metadata.width, tw)
        h == FDiv(-character_metadata.height, th)
        white == <<F32(1), F32(1), F32(1)>>
        vertices == <<
            Vertex_with_values(<<cursor_offset, y_off, F32(0)>>, white, <<x, y>>),
            Vertex_with_values(<<cursor_offset, y_off + h, F32(0)>>, white, <<x, y + h>>),
            Vertex_with_values(<<cursor_offset + w, y_off + h, F32(0)>>, white, <<x + w, y + h>>),
            Vertex_with_values(<<cursor_offset + w, y_off, F32(0)>>, white, <<x + w, y>>) >>
    IN Mesh_add_indices(
           Mesh_add_vertices(Mesh_new(mesh_attributes), vertices), QuadIndices)

\* The loop of render_text_node over the characters from position k on.
RECURSIVE TextLoop(_, _, _, _, _)
TextLoop(font, text, k, cursor_offset, meshes) ==
    IF k > Len(text.text) THEN [meshes |-> meshes, panicked |-> FALSE]
    ELSE LET found == FontMetadata_character(font.metadata, text.text[k])
         IN IF found = None THEN [meshes |-> meshes, panicked |-> TRUE]
            ELSE LET character_metadata == found[1]
                     w == FDiv(character_metadata.width, tw)
                 IN TextLoop(font, text, k + 1, cursor_offset + w,
                             Append(meshes,
                                    TextCharacterMesh(character_metadata,
                                                      text.font_identifier,
                                                      cursor_offset)))

render_text_node(text) ==
    LET found == ResourceStore_get(font_store, text.font_identifier)
    IN IF found = None THEN [meshes |-> <<>>, panicked |-> TRUE]
       ELSE TextLoop(found[1], text, 1, F32(0), <<>>)

\* Mutant: the two points are taken in the other order.
render_line_node_Swapped(line) ==
    LET mesh_attributes == MeshAttributesBuilder_build(
            MeshAttributesBuilder_draw_mode(MeshAttributesBuilder_new, LINES))
        white == <<F32(1), F32(1), F32(1)>>
        vertices == <<
            Vertex_with_values(line.second_point, white, <<F32(0), F32(0)>>),
            Vertex_with_values(line.first_point, white, <<F32(0), F32(0)>>) >>
        mesh == Mesh_add_indices(
                    Mesh_add_vertices(Mesh_new(mesh_attributes), vertices),
                    <<0, 1>>)
    IN [meshes |-> <<mesh>>, panicked |-> FALSE]

render_line_node(line) ==
    LET mesh_attributes == MeshAttributesBuilder_build(
            MeshAttributesBuilder_draw_mode(MeshAttributesBuilder_new, LINES))
        white == <<F32(1), F32(1), F32(1)>>
        vertices == <<
            Vertex_with_values(line.first_point, white, <<F32(0), F32(0)>>),
            Vertex_with_values(line.second_point, white, <<F32(0), F32(0)>>) >>
        mesh == Mesh_add_indices(
                    Mesh_add_vertices(Mesh_new(mesh_attributes), vertices),
                    <<0, 1>>)
    IN [meshes |-> <<mesh>>, panicked |-> FALSE]

\* Mutant: a value that is not renderable pushes an empty mesh.
render_scene_node_PushesForOther(value) ==
    CASE value.kind = "RectangleNode" -> render_rectangle_node(value)
      [] value.kind = "LineNode" -> render_line_node(value)
      [] value.kind = "SpriteNode" -> render_sprite_node(value)
      [] value.kind = "TextNode" -> render_text_node(value)
      [] OTHER -> [meshes |-> <<Mesh_new(MeshAttributes_defaults)>>, panicked |-> FALSE]

\* The match on the node's value; any other value is not renderable.
render_scene_node(value) ==
    CASE value.kind = "RectangleNode" -> render_rectangle_node(value)
      [] value.kind = "LineNode" -> render_line_node(value)
      [] value.kind = "SpriteNode" -> render_sprite_node(value)
      [] value.kind = "TextNode" -> render_text_node(value)
      [] OTHER -> [meshes |-> <<>>, panicked |-> FALSE]

\* ------------------------------------------------------------ sort_meshes
\* Vec::sort_by_key is a stable sort: an insertion after every element that
\* is not greater.

\* Mutant: the mesh is inserted before the elements of equal key.
InsertByKey_BeforeEqual(sorted, mesh) ==
    LET k == Cardinality({i \in 1..Len(sorted) :
                 AttributesLess(sorted[i].attributes, mesh.attributes)})
    IN SubSeq(sorted, 1, k) \o <<mesh>> \o SubSeq(sorted, k + 1, Len(sorted))

InsertByKey(sorted, mesh) ==
    LET k == Cardinality({i \in 1..Len(sorted) :
                 ~AttributesLess(mesh.attributes, sorted[i].attributes)})
    IN SubSeq(sorted, 1, k) \o <<mesh>> \o SubSeq(sorted, k + 1, Len(sorted))

RECURSIVE SortFrom(_, _)
SortFrom(sorted, rest) ==
    IF rest = <<>> THEN sorted
    ELSE SortFrom(InsertByKey(sorted, Head(rest)), Tail(rest))

\* Mutant: the meshes are left in the order they were pushed.
sort_by_key_Unsorted(meshes) == meshes

\* Mutant: the meshes are sorted in descending order.
sort_by_key_Descending(meshes) ==
    LET s == SortFrom(<<>>, meshes)
    IN [i \in 1..Len(s) |-> s[Len(s) + 1 - i]]

sort_by_key(meshes) == SortFrom(<<>>, meshes)

\* ------------------------------------------------------------ RenderBatch

\* BufferObject::with_size: a data store of `size` bytes, nothing written
BufferObject_with_size(target, size) ==
    [target |-> target, size |-> size, data |-> <<>>]

RenderBatch_new(mesh_attributes) ==
    [mesh_attributes |-> mesh_attributes,
     vbo |-> BufferObject_with_size("ARRAY_BUFFER", MAX_BATCH_SIZE),
     ebo |-> BufferObject_with_size("ELEMENT_ARRAY_BUFFER", MAX_BATCH_SIZE),
     vertex_count |-> 0,
     index_count |-> 0,
     last_index |-> 0]

\* glMapBufferRange yields a pointer into the store iff the range is not
\* empty and lies within the store; otherwise it raises a GL error and
\* yields NULL.
MapInStore(buffer, offset, length) ==
    length > 0 /\ offset + length <= buffer.size

\* The store after writing elems at consecutive slots from `slot` on
\* (0-based), through a pointer mapped at that slot.
WriteAt(buffer, slot, elems) ==
    [buffer EXCEPT !.data =
        SubSeq(buffer.data, 1, slot) \o elems
            \o SubSeq(buffer.data, slot + Len(elems) + 1, Len(buffer.data))]

\* The range of the vertex buffer add_mesh maps, as <<offset, length>>
VertexRange(self, mesh) ==
    <<self.vertex_count * SizeOfVertex, Len(mesh.vertices) * SizeOfVertex>>

\* The range of the index buffer add_mesh maps
IndexRange(self, mesh) ==
    <<self.index_count * SizeOfIndex, Len(mesh.indices) * SizeOfIndex>>

\* Both ranges add_mesh maps lie within the stores.
add_mesh_in_store(self, mesh) ==
    /\ MapInStore(self.vbo, VertexRange(self, mesh)[1], VertexRange(self, mesh)[2])
    /\ MapInStore(self.ebo, IndexRange(self, mesh)[1], IndexRange(self, mesh)[2])

\* Mutant: the offset is the highest index written, not one more.
index_offset_HighestIndex(last_index) == last_index

\* The offset add_mesh adds to every index of a mesh
index_offset(last_index) ==
    IF last_index = 0 THEN 0 ELSE last_index + 1

\* Mutant: the indices are written as they are in the mesh.
RebasedIndices_NotRebased(self, mesh) == mesh.indices

\* The indices add_mesh writes for a mesh
RebasedIndices(self, mesh) ==
    [j \in 1..Len(mesh.indices) |-> mesh.indices[j] + index_offset(self.last_index)]

\* RenderBatch::add_mesh.  A write through a pointer that is not in the
\* store does not reach the store; the cursors and last_index are updated
\* whatever the pointers are.
add_mesh(self, mesh) ==
    LET vr == VertexRange(self, mesh)
        ir == IndexRange(self, mesh)
        written == RebasedIndices(self, mesh)
    IN [self EXCEPT
          !.vbo = IF MapInStore(self.vbo, vr[1], vr[2])
                      THEN WriteAt(self.vbo, self.vertex_count, mesh.vertices)
                      ELSE self.vbo,
          !.ebo = IF MapInStore(self.ebo, ir[1], ir[2])
                      THEN WriteAt(self.ebo, self.index_count, written)
                      ELSE self.ebo,
          !.last_index = Max({self.last_index} \cup Range(written)),
          !.vertex_count = self.vertex_count + Len(mesh.vertices),
          !.index_count = self.index_count + Len(mesh.indices)]

\* Mutant: the mesh is added to the open batch if the draw modes are equal.
batch_mesh_SameDrawMode(batches, mesh) ==
    IF Len(batches) = 0
          \/ batches[Len(batches)].mesh_attributes.draw_mode # mesh.attributes.draw_mode
        THEN Append(batches, add_mesh(RenderBatch_new(mesh.attributes), mesh))
        ELSE [batches EXCEPT ![Len(batches)] = add_mesh(batches[Len(batches)], mesh)]

\* One iteration of the loop of batch_meshes: the batches after `mesh`.
batch_mesh(batches, mesh) ==
    IF Len(batches) = 0 \/ batches[Len(batches)].mesh_attributes # mesh.attributes
        THEN Append(batches, add_mesh(RenderBatch_new(mesh.attributes), mesh))
        ELSE [batches EXCEPT ![Len(batches)] = add_mesh(batches[Len(batches)], mesh)]

\* The batch the mesh is added to by that iteration, before it is added.
TargetBatch(batches, mesh) ==
    IF Len(batches) = 0 \/ batches[Len(batches)].mesh_attributes # mesh.attributes
        THEN RenderBatch_new(mesh.attributes)
        ELSE batches[Len(batches)]

\* ------------------------------------------------------------- GL context
\* The objects of the GL context and its bindings.  A name is a positive
\* number, 0 is no object.  The binding of ELEMENT_ARRAY_BUFFER is state of
\* the vertex array object bound (of the default one, 0, if none is).

Context_new ==
    [buffers |-> {}, vertex_arrays |-> {}, array_buffer |-> 0, vertex_array |-> 0,
     element_array_buffer |-> [v \in {0} |-> 0], mapped |-> {}]

\* glGenBuffers and glGenVertexArrays return a name that is not in use: the
\* least one (which name it is has no effect on the code).
GenName(used) ==
    CHOOSE n \in 1..(Cardinality(used) + 1) :
        n \notin used /\ \A m \in 1..(n - 1) : m \in used

\* A call into GL: what is called, the target or else "", the name or else 0
\* and, for glMapBufferRange, whether the range is in the store.
Call(call, target, name) == [call |-> call, target |-> target, name |-> name, ok |-> TRUE]

\* The buffer bound to a target
BoundBuffer(c, target) ==
    IF target = "ARRAY_BUFFER" THEN c.array_buffer
    ELSE c.element_array_buffer[c.vertex_array]

\* The context after a call
Do(c, call) ==
    CASE call.call = "GenBuffers" -> [c EXCEPT !.buffers = @ \cup {call.name}]
      [] call.call = "GenVertexArrays" ->
            [c EXCEPT !.vertex_arrays = @ \cup {call.name},
                      !.element_array_buffer =
                          [v \in DOMAIN @ \cup {call.name} |->
                              IF v = call.name THEN 0 ELSE @[v]]]
      [] call.call = "BindBuffer" ->
            IF call.target = "ARRAY_BUFFER"
               THEN [c EXCEPT !.array_buffer = call.name]
               ELSE [c EXCEPT !.element_array_buffer[c.vertex_array] = call.name]
      [] call.call = "BindVertexArray" -> [c EXCEPT !.vertex_array = call.name]
      [] call.call = "MapBufferRange" ->
            IF call.ok /\ BoundBuffer(c, call.target) # 0
               THEN [c EXCEPT !.mapped = @ \cup {BoundBuffer(c, call.target)}]
               ELSE c
      [] call.call = "UnmapBuffer" ->
            [c EXCEPT !.mapped = @ \ {BoundBuffer(c, call.target)}]
      [] call.call = "DeleteBuffers" ->
            [c EXCEPT !.buffers = @ \ {call.name},
                      !.mapped = @ \ {call.name},
                      !.array_buffer = IF @ = call.name THEN 0 ELSE @,
                      !.element_array_buffer[c.vertex_array] =
                          IF @ = call.name THEN 0 ELSE @]
      [] call.call = "DeleteVertexArrays" ->
            [c EXCEPT !.vertex_arrays = @ \ {call.name},
                      !.vertex_array = IF @ = call.name THEN 0 ELSE @,
                      !.element_array_buffer =
                          [v \in DOMAIN @ \ {call.name} |-> @[v]]]
      [] OTHER -> c

\* The context after a sequence of calls
RECURSIVE DoAll(_, _)
DoAll(c, calls) ==
    IF calls = <<>> THEN c ELSE DoAll(Do(c, Head(calls)), Tail(calls))

\* BufferObject::bind, unbind, map_buffer_range, unmap
BufferObject_bind(target, name) == Call("BindBuffer", target, name)
BufferObject_unbind(target) == Call("BindBuffer", target, 0)
BufferObject_map_buffer_range(target, in_store) ==
    [Call("MapBufferRange", target, 0) EXCEPT !.ok = in_store]
BufferObject_unmap(target) == Call("UnmapBuffer", target, 0)

\* The names RenderBatch::new gets for its vao, vbo and ebo in a context
RenderBatch_new_objects(c) ==
    LET vbo == GenName(c.buffers)
    IN [vao |-> GenName(c.vertex_arrays), vbo |-> vbo,
        ebo |-> GenName(c.buffers \cup {vbo})]

\* The calls of RenderBatch::new that create, bind or unbind an object:
\* VertexArrayObject::new, BufferObject::with_size twice, then the vao and
\* both buffers are bound and the vao is unbound (the vbo is left bound).
RenderBatch_new_calls(c) ==
    LET o == RenderBatch_new_objects(c)
    IN << Call("GenVertexArrays", "", o.vao),
          Call("GenBuffers", "ARRAY_BUFFER", o.vbo),
          BufferObject_bind("ARRAY_BUFFER", o.vbo),
          BufferObject_unbind("ARRAY_BUFFER"),
          Call("GenBuffers", "ELEMENT_ARRAY_BUFFER", o.ebo),
          BufferObject_bind("ELEMENT_ARRAY_BUFFER", o.ebo),
          BufferObject_unbind("ELEMENT_ARRAY_BUFFER"),
          Call("BindVertexArray", "", o.vao),
          BufferObject_bind("ARRAY_BUFFER", o.vbo),
          BufferObject_bind("ELEMENT_ARRAY_BUFFER", o.ebo),
          Call("BindVertexArray", "", 0) >>

\* The writes of add_mesh through the pointer mapped on a target: none if
\* the mesh has nothing to write there
Writes(target, elems) ==
    IF elems = <<>> THEN <<>> ELSE <<Call("write", target, 0)>>

\* Mutant: the index buffer is left bound.
add_mesh_calls_IndexBufferLeftBound(objects, self, mesh) ==
    LET vr == VertexRange(self, mesh)
        ir == IndexRange(self, mesh)
    IN << BufferObject_bind("ARRAY_BUFFER", objects.vbo),
          BufferObject_map_buffer_range("ARRAY_BUFFER", MapInStore(self.vbo, vr[1], vr[2])) >>
       \o Writes("ARRAY_BUFFER", mesh.vertices)
       \o << BufferObject_unmap("ARRAY_BUFFER"),
             BufferObject_unbind("ARRAY_BUFFER"),
             BufferObject_bind("ELEMENT_ARRAY_BUFFER", objects.ebo),
             BufferObject_map_buffer_range("ELEMENT_ARRAY_BUFFER",
                                           MapInStore(self.ebo, ir[1], ir[2])) >>
       \o Writes("ELEMENT_ARRAY_BUFFER", mesh.indices)
       \o << BufferObject_unmap("ELEMENT_ARRAY_BUFFER") >>

\* The calls of RenderBatch::add_mesh on its buffers, in their order
add_mesh_calls(objects, self, mesh) ==
    LET vr == VertexRange(self, mesh)
        ir == IndexRange(self, mesh)
    IN << BufferObject_bind("ARRAY_BUFFER", objects.vbo),
          BufferObject_map_buffer_range("ARRAY_BUFFER", MapInStore(self.vbo, vr[1], vr[2])) >>
       \o Writes("ARRAY_BUFFER", mesh.vertices)
       \o << BufferObject_unmap("ARRAY_BUFFER"),
             BufferObject_unbind("ARRAY_BUFFER"),
             BufferObject_bind("ELEMENT_ARRAY_BUFFER", objects.ebo),
             BufferObject_map_buffer_range("ELEMENT_ARRAY_BUFFER",
                                           MapInStore(self.ebo, ir[1], ir[2])) >>
       \o Writes("ELEMENT_ARRAY_BUFFER", mesh.indices)
       \o << BufferObject_unmap("ELEMENT_ARRAY_BUFFER"),
             BufferObject_unbind("ELEMENT_ARRAY_BUFFER") >>

\* The calls of add_mesh up to the first write through a pointer that is
\* not in the store, at which the process may die
add_mesh_calls_until_fault(objects, self, mesh) ==
    LET calls == add_mesh_calls(objects, self, mesh)
        fault == CHOOSE k \in 1..Len(calls) :
                     /\ calls[k].call = "MapBufferRange" /\ ~calls[k].ok
                     /\ \A j \in 1..(k - 1) :
                           ~(calls[j].call = "MapBufferRange" /\ ~calls[j].ok)
    IN SubSeq(calls, 1, fault)

\* Mutant: the vertex array object has no Drop.
RenderBatch_drop_LeaksVertexArray(objects) ==
    << Call("DeleteBuffers", "", objects.vbo),
       Call("DeleteBuffers", "", objects.ebo) >>

\* Dropping a RenderBatch drops its fields in the order they are declared:
\* the vao (glDeleteVertexArrays), the vbo and the ebo (glDeleteBuffers).
RenderBatch_drop(objects) ==
    << Call("DeleteVertexArrays", "", objects.vao),
       Call("DeleteBuffers", "", objects.vbo),
       Call("DeleteBuffers", "", objects.ebo) >>

\* ------------------------------------------------------------------ scenes

GroupValue == [kind |-> "GroupNode"]
RectangleValue ==
    [kind |-> "RectangleNode", width |-> F32(2), height |-> F32(3),
     color |-> <<F32(1), F32(0), F32(0)>>]
LineValue ==
    [kind |-> "LineNode", first_point |-> <<F32(0), F32(-1), F32(0)>>,
     second_point |-> <<F32(1), F32(1), F32(0)>>,
     color |-> <<F32(1), F32(1), F32(1), F32(1)>>]
SpriteValue ==
    [kind |-> "SpriteNode", width |-> F32(1), height |-> F32(1),
     texture_identifier |-> "64x64"]
TextABValue ==
    [kind |-> "TextNode", text |-> <<"a", "b">>, font_identifier |-> "default_font2"]
TextBValue ==
    [kind |-> "TextNode", text |-> <<"b">>, font_identifier |-> "default_font2"]
\* Values whose resources are missing: a texture that is not in the store, a
\* character that is not in the font, a font that is not in the store.
SpriteNoTextureValue ==
    [kind |-> "SpriteNode", width |-> F32(1), height |-> F32(1),
     texture_identifier |-> "64x64b"]
TextACValue ==
    [kind |-> "TextNode", text |-> <<"a", "c">>, font_identifier |-> "default_font2"]
TextNoFontValue ==
    [kind |-> "TextNode", text |-> <<"a">>, font_identifier |-> "missing_font"]

Values ==
    {GroupValue, RectangleValue, LineValue, SpriteValue, TextABValue, TextBValue}
SharedIdentifierValues == {GroupValue, TextABValue}
MissingResourceValues ==
    {RectangleValue, SpriteNoTextureValue, TextACValue, TextNoFontValue}

\* parent[i] is the parent of node i; the root, node 1, has parent 0.
Parents(n) ==
    {p \in [1..n -> 0..(n - 1)] : p[1] = 0 /\ \A i \in 2..n : p[i] \in 1..(i - 1)}

\* Identifiers in which an identifier may repeat (named in first-use order).
SharedIdentifiers(n) ==
    {d \in [1..n -> 1..n] :
        d[1] = 1 /\ \A i \in 2..n : d[i] <= 1 + Max({d[j] : j \in 1..(i - 1)})}

ScenesOfSize(n) ==
    {[parent |-> p, identifier |-> [i \in 1..n |-> i], value |-> v] :
        p \in Parents(n), v \in [1..n -> Values]}
    \cup {[parent |-> p, identifier |-> d, value |-> v] :
        p \in Parents(n), d \in SharedIdentifiers(n),
        v \in [1..n -> SharedIdentifierValues]}
    \cup {[parent |-> p, identifier |-> [i \in 1..n |-> i], value |-> v] :
        p \in Parents(n), v \in [1..n -> MissingResourceValues]}

\* The scene graphs render_scene is called with: every tree of at most
\* MaxNodes nodes over Values with distinct identifiers, over
\* SharedIdentifierValues with any identifiers, and over
\* MissingResourceValues with distinct identifiers.
Scenes == UNION {ScenesOfSize(n) : n \in 1..MaxNodes}

NoScene == [parent |-> <<>>, identifier |-> <<>>, value |-> <<>>]

\* Mutant: the children iterate in the reverse of the order they were added.
children_Reversed(s, node) ==
    LET RECURSIVE From(_)
        From(i) == IF i > Len(s.parent) THEN <<>>
                   ELSE From(i + 1) \o (IF s.parent[i] = node THEN <<i>> ELSE <<>>)
    IN (IF "links" \in DOMAIN s THEN s.links[node] ELSE <<>>) \o From(1)

\* SceneNode::children: in the order the children were added.  A scene
\* graph that is not a tree has in links[node] the nodes that `node` has as
\* children besides those whose parent it is, added after them.
children(s, node) ==
    LET RECURSIVE From(_)
        From(i) == IF i > Len(s.parent) THEN <<>>
                   ELSE (IF s.parent[i] = node THEN <<i>> ELSE <<>>) \o From(i + 1)
    IN From(1) \o (IF "links" \in DOMAIN s THEN s.links[node] ELSE <<>>)

\* ------------------------------------------------------------------- state

VARIABLES
    pc,               \* where render_scene is: "idle", "traverse", "batch",
                      \* "render", "done" (returned), "aborted" (the process died)
    scene,            \* the scene graph render_scene was called with
    stack,            \* render_scene: the nodes to visit
    visited,          \* render_scene: the identifiers visited
    pending_meshes,   \* GLSceneRenderer::pending_meshes
    pending_batches,  \* GLSceneRenderer::pending_batches
    mesh_index,       \* batch_meshes: the position of its loop in pending_meshes
    batch_index,      \* render_batches: the position of its loop in pending_batches
    bound_texture,    \* GL context: the texture bound, or "none"
    blending,         \* GL context: whether blending is enabled
    mapped,           \* the ranges the last add_mesh mapped: <<>> or
                      \* <<vertex range, index range>>, each <<offset, length>>
    draw_calls,       \* history: the draw calls of this call of render_scene
    tessellated,      \* history: the nodes render_scene_node was called for
    added             \* history: for every batch created, its configuration
                      \* and, for every mesh added to it, the position of the
                      \* mesh in the sorted pending_meshes, its numbers of
                      \* vertices and indices, and the cursors of the batch
                      \* when add_mesh was entered

\* The objects of the GL context that the batches create.
VARIABLES
    context,          \* GL context: the names of the buffers and vertex
                      \* arrays in use, the bindings, the buffers mapped
    batch_objects,    \* for every batch of pending_batches, the names held
                      \* by its fields vao, vbo and ebo
    gl_calls          \* history: the calls of the last add_mesh on its
                      \* buffers, in their order

\* The public types of the crate as client code uses them on their own.
VARIABLES
    client,           \* the object exercised: "GLSceneRenderer", "Mesh",
                      \* "MeshAttributesBuilder" or "RenderBatch"
    client_mesh,      \* a Mesh, or None
    client_builder,   \* a MeshAttributesBuilder, or None
    client_batch,     \* a RenderBatch, or None
    client_calls      \* history: the calls made on that object, in order

vars == <<pc, scene, stack, visited, pending_meshes, pending_batches,
          mesh_index, batch_index, bound_texture, blending, mapped,
          draw_calls, tessellated, added, context, batch_objects, gl_calls,
          client, client_mesh, client_builder, client_batch, client_calls>>

sceneRendererVars ==
    <<pc, scene, stack, visited, pending_meshes, pending_batches,
      mesh_index, batch_index, bound_texture, blending, mapped,
      draw_calls, tessellated, added, context, batch_objects, gl_calls>>
clientVars == <<client, client_mesh, client_builder, client_batch, client_calls>>

rendererVars == <<pending_meshes, pending_batches, batch_objects, mesh_index, batch_index>>
glVars == <<bound_texture, blending>>
historyVars == <<draw_calls, tessellated, added>>

\* GLSceneRenderer::new, and a GL context in which nothing is bound
Init ==
    /\ pc = "idle"
    /\ scene = NoScene
    /\ stack = <<>>
    /\ visited = {}
    /\ pending_meshes = <<>>
    /\ pending_batches = <<>>
    /\ mesh_index = 1
    /\ batch_index = 1
    /\ bound_texture = "none"
    /\ blending = FALSE
    /\ mapped = <<>>
    /\ draw_calls = <<>>
    /\ tessellated = <<>>
    /\ added = <<>>
    /\ context = Context_new
    /\ batch_objects = <<>>
    /\ gl_calls = <<>>
    /\ client = "GLSceneRenderer"
    /\ client_mesh = None
    /\ client_builder = None
    /\ client_batch = None
    /\ client_calls = <<>>

\* ----------------------------------------------------------- render_scene

\* render_scene is called with a scene graph: the stack holds the root.
RenderSceneBegin ==
    /\ pc = "idle"
    /\ \E s \in Scenes : scene' = s
    /\ stack' = <<1>>
    /\ visited' = {}
    /\ pc' = "traverse"
    /\ UNCHANGED <<rendererVars, glVars, context, mapped, gl_calls, historyVars>>
    /\ UNCHANGED clientVars

\* Mutant: the identifier of the node is not inserted into visited.
VisitNode_NotInserted ==
    /\ pc = "traverse"
    /\ Len(stack) # 0
    /\ LET node == stack[Len(stack)]
           popped == SubSeq(stack, 1, Len(stack) - 1)
           result == render_scene_node(scene.value[node])
       IN /\ scene.identifier[node] \notin visited
          /\ pending_meshes' = pending_meshes \o result.meshes
          /\ tessellated' = Append(tessellated, node)
          /\ UNCHANGED visited
          /\ IF result.panicked
               THEN pc' = "aborted" /\ stack' = popped
               ELSE pc' = "traverse" /\ stack' = popped \o children(scene, node)
    /\ UNCHANGED <<scene, pending_batches, batch_objects, mesh_index, batch_index, glVars, context,
                   mapped, gl_calls, draw_calls, added>>
    /\ UNCHANGED clientVars

\* One iteration of the while loop that finds a node not visited yet:
\* render_scene_node, then its identifier is visited and its children pushed.
VisitNode ==
    /\ pc = "traverse"
    /\ Len(stack) # 0
    /\ LET node == stack[Len(stack)]
           popped == SubSeq(stack, 1, Len(stack) - 1)
           result == render_scene_node(scene.value[node])
       IN /\ scene.identifier[node] \notin visited
          /\ pending_meshes' = pending_meshes \o result.meshes
          /\ tessellated' = Append(tessellated, node)
          /\ IF result.panicked
               THEN /\ pc' = "aborted"
                    /\ stack' = popped
                    /\ UNCHANGED visited
               ELSE /\ pc' = "traverse"
                    /\ visited' = visited \cup {scene.identifier[node]}
                    /\ stack' = popped \o children(scene, node)
    /\ UNCHANGED <<scene, pending_batches, batch_objects, mesh_index, batch_index, glVars, context,
                   mapped, gl_calls, draw_calls, added>>
    /\ UNCHANGED clientVars

\* Mutant: a node whose identifier was visited is left on the stack.
SkipNode_NotPopped ==
    /\ pc = "traverse"
    /\ Len(stack) # 0
    /\ scene.identifier[stack[Len(stack)]] \in visited
    /\ UNCHANGED <<pc, scene, stack, visited, rendererVars, glVars, context, mapped, gl_calls, historyVars>>
    /\ UNCHANGED clientVars

\* One iteration of the while loop that pops a node whose identifier was
\* visited: nothing but the pop.
SkipNode ==
    /\ pc = "traverse"
    /\ Len(stack) # 0
    /\ scene.identifier[stack[Len(stack)]] \in visited
    /\ stack' = SubSeq(stack, 1, Len(stack) - 1)
    /\ UNCHANGED <<pc, scene, visited, rendererVars, glVars, context, mapped, gl_calls, historyVars>>
    /\ UNCHANGED clientVars

\* GLSceneRenderer::render is called by the application itself: it starts
\* with sort_meshes, as it does at the end of render_scene.
Render ==
    /\ pc = "idle"
    /\ pending_meshes' = sort_by_key(pending_meshes)
    /\ mesh_index' = 1
    /\ pc' = "batch"
    /\ UNCHANGED <<scene, stack, visited, pending_batches, batch_objects,
                   batch_index, glVars, context,
                   mapped, gl_calls, historyVars>>
    /\ UNCHANGED clientVars

\* The stack is empty: render() is called and starts with sort_meshes.
SortMeshes ==
    /\ pc = "traverse"
    /\ Len(stack) = 0
    /\ pending_meshes' = sort_by_key(pending_meshes)
    /\ mesh_index' = 1
    /\ pc' = "batch"
    /\ UNCHANGED <<scene, stack, visited, pending_batches, batch_objects,
                   batch_index, glVars, context,
                   mapped, gl_calls, historyVars>>
    /\ UNCHANGED clientVars

\* What the iteration of batch_meshes for `mesh` adds to the history.
AddedAfter(batches, mesh) ==
    LET entry == [position |-> mesh_index,
                  vertices |-> Len(mesh.vertices),
                  indices |-> Len(mesh.indices),
                  vertex_count |-> TargetBatch(batches, mesh).vertex_count,
                  index_count |-> TargetBatch(batches, mesh).index_count]
    IN IF Len(batch_mesh(batches, mesh)) > Len(batches)
          THEN Append(added, [attributes |-> mesh.attributes, meshes |-> <<entry>>])
          ELSE [added EXCEPT ![Len(added)].meshes = Append(@, entry)]

\* That iteration creates a batch.
OpensBatch(batches, mesh) ==
    Len(batches) = 0 \/ batches[Len(batches)].mesh_attributes # mesh.attributes

\* The names of the objects of the batch the mesh is added to
TargetObjects(batches, mesh) ==
    IF OpensBatch(batches, mesh) THEN RenderBatch_new_objects(context)
    ELSE batch_objects[Len(batch_objects)]

\* The calls of RenderBatch::new, if that iteration creates a batch
NewBatchCalls(batches, mesh) ==
    IF OpensBatch(batches, mesh) THEN RenderBatch_new_calls(context) ELSE <<>>

\* One iteration of the loop of batch_meshes, the ranges add_mesh maps being
\* within the stores of the batch.
BatchMesh ==
    /\ pc = "batch"
    /\ mesh_index <= Len(pending_meshes)
    /\ LET mesh == pending_meshes[mesh_index]
           batch == TargetBatch(pending_batches, mesh)
           objects == TargetObjects(pending_batches, mesh)
           calls == add_mesh_calls(objects, batch, mesh)
       IN /\ add_mesh_in_store(batch, mesh)
          /\ pending_batches' = batch_mesh(pending_batches, mesh)
          /\ batch_objects' = IF OpensBatch(pending_batches, mesh)
                                 THEN Append(batch_objects, objects)
                                 ELSE batch_objects
          /\ context' = DoAll(context, NewBatchCalls(pending_batches, mesh) \o calls)
          /\ gl_calls' = calls
          /\ added' = AddedAfter(pending_batches, mesh)
          /\ mapped' = <<VertexRange(batch, mesh), IndexRange(batch, mesh)>>
    /\ mesh_index' = mesh_index + 1
    /\ UNCHANGED <<pc, scene, stack, visited, pending_meshes, batch_index,
                   glVars, draw_calls, tessellated>>
    /\ UNCHANGED clientVars

\* One iteration of the loop of batch_meshes in which add_mesh maps a range
\* that is not within the store: glMapBufferRange yields NULL and add_mesh
\* writes through it, which is undefined behaviour.  Either the process dies
\* at the write, or the writes land outside the store and add_mesh goes on.
BatchMeshOutOfStore ==
    /\ pc = "batch"
    /\ mesh_index <= Len(pending_meshes)
    /\ LET mesh == pending_meshes[mesh_index]
           batch == TargetBatch(pending_batches, mesh)
           objects == TargetObjects(pending_batches, mesh)
           calls == add_mesh_calls(objects, batch, mesh)
           until_fault == add_mesh_calls_until_fault(objects, batch, mesh)
       IN /\ ~add_mesh_in_store(batch, mesh)
          /\ mapped' = <<VertexRange(batch, mesh), IndexRange(batch, mesh)>>
          /\ \/ /\ pc' = "aborted"
                /\ context' = DoAll(context,
                                    NewBatchCalls(pending_batches, mesh) \o until_fault)
                /\ gl_calls' = until_fault
                /\ UNCHANGED <<pending_batches, batch_objects, added, mesh_index>>
             \/ /\ pc' = "batch"
                /\ pending_batches' = batch_mesh(pending_batches, mesh)
                /\ batch_objects' = IF OpensBatch(pending_batches, mesh)
                                       THEN Append(batch_objects, objects)
                                       ELSE batch_objects
                /\ context' = DoAll(context, NewBatchCalls(pending_batches, mesh) \o calls)
                /\ gl_calls' = calls
                /\ added' = AddedAfter(pending_batches, mesh)
                /\ mesh_index' = mesh_index + 1
    /\ UNCHANGED <<scene, stack, visited, pending_meshes, batch_index,
                   glVars, draw_calls, tessellated>>
    /\ UNCHANGED clientVars

\* The loop of batch_meshes is over: pending_meshes is cleared, and
\* render_batches starts.
BatchMeshesEnd ==
    /\ pc = "batch"
    /\ mesh_index > Len(pending_meshes)
    /\ pending_meshes' = <<>>
    /\ batch_index' = 1
    /\ pc' = "render"
    /\ UNCHANGED <<scene, stack, visited, pending_batches, batch_objects,
                   mesh_index, glVars, context,
                   mapped, gl_calls, historyVars>>
    /\ UNCHANGED clientVars

\* opengl::enable_font_blending
enable_font_blending(enabled) == TRUE

\* Mutant: the draw call counts the vertices of the batch.
RenderBatch_render_VertexCount(self) ==
    [mode |-> self.mesh_attributes.draw_mode, count |-> self.vertex_count]

\* RenderBatch::render: the vao is bound for the draw call, and left bound
RenderBatch_render_calls(objects) == <<Call("BindVertexArray", "", objects.vao)>>

\* RenderBatch::render: the draw call it issues
RenderBatch_render(self) ==
    [mode |-> self.mesh_attributes.draw_mode, count |-> self.index_count]

\* The resource render_batches looks up for a batch: None if it needs none,
\* else <<the lookup's result>>
BatchResource(attributes) ==
    IF attributes.font_identifier # None
        THEN Some(ResourceStore_get(font_store, attributes.font_identifier[1]))
    ELSE IF attributes.texture_identifier # None
        THEN Some(ResourceStore_get(texture_store, attributes.texture_identifier[1]))
    ELSE None

\* Mutant: the texture of the batch is bound if it has one, or else the
\* texture of its font.
RenderBatch_TextureFirst ==
    /\ pc = "render"
    /\ batch_index <= Len(pending_batches)
    /\ LET batch == pending_batches[batch_index]
           attributes == batch.mesh_attributes
       IN /\ BatchResource(attributes) # Some(None)
          /\ IF attributes.texture_identifier # None
                THEN /\ bound_texture'
                          = ResourceStore_get(texture_store, attributes.texture_identifier[1])[1]
                     /\ UNCHANGED blending
             ELSE IF attributes.font_identifier # None
                THEN /\ blending' = enable_font_blending(blending)
                     /\ bound_texture'
                          = ResourceStore_get(font_store, attributes.font_identifier[1])[1].texture
             ELSE UNCHANGED <<bound_texture, blending>>
          /\ context' = DoAll(context, RenderBatch_render_calls(batch_objects[batch_index]))
          /\ draw_calls' = Append(draw_calls, RenderBatch_render(batch))
    /\ batch_index' = batch_index + 1
    /\ UNCHANGED <<pc, scene, stack, visited, pending_meshes, pending_batches,
                   batch_objects, mesh_index, mapped, gl_calls, tessellated, added>>
    /\ UNCHANGED clientVars

\* One iteration of the loop of render_batches: the font's texture or else
\* the texture of the batch is bound, and the batch is drawn.
RenderBatch ==
    /\ pc = "render"
    /\ batch_index <= Len(pending_batches)
    /\ LET batch == pending_batches[batch_index]
           attributes == batch.mesh_attributes
           resource == BatchResource(attributes)
       IN /\ resource # Some(None)
          /\ IF attributes.font_identifier # None
                THEN /\ blending' = enable_font_blending(blending)
                     /\ bound_texture' = resource[1][1].texture
             ELSE IF attributes.texture_identifier # None
                THEN /\ bound_texture' = resource[1][1]
                     /\ UNCHANGED blending
             ELSE UNCHANGED <<bound_texture, blending>>
          /\ context' = DoAll(context, RenderBatch_render_calls(batch_objects[batch_index]))
          /\ draw_calls' = Append(draw_calls, RenderBatch_render(batch))
    /\ batch_index' = batch_index + 1
    /\ UNCHANGED <<pc, scene, stack, visited, pending_meshes, pending_batches,
                   batch_objects, mesh_index, mapped, gl_calls, tessellated, added>>
    /\ UNCHANGED clientVars

\* One iteration of the loop of render_batches for a batch whose font or
\* texture is not in its store: unwrap panics.
RenderBatchPanic ==
    /\ pc = "render"
    /\ batch_index <= Len(pending_batches)
    /\ BatchResource(pending_batches[batch_index].mesh_attributes) = Some(None)
    /\ pc' = "aborted"
    /\ UNCHANGED <<scene, stack, visited, rendererVars, glVars, context, mapped,
                   gl_calls, historyVars>>
    /\ UNCHANGED clientVars

\* Mutant: pending_batches is not cleared.
RenderBatchesEnd_KeepsBatches ==
    /\ pc = "render"
    /\ batch_index > Len(pending_batches)
    /\ pc' = "done"
    /\ UNCHANGED <<scene, stack, visited, rendererVars, glVars, context, mapped,
                   gl_calls, historyVars>>
    /\ UNCHANGED clientVars

\* The loop of render_batches is over: pending_batches is cleared, which
\* drops the batches one after the other, and render_scene returns.
RenderBatchesEnd ==
    /\ pc = "render"
    /\ batch_index > Len(pending_batches)
    /\ pending_batches' = <<>>
    /\ batch_objects' = <<>>
    /\ context' = DoAll(context, Concat([b \in 1..Len(batch_objects) |->
                                            RenderBatch_drop(batch_objects[b])]))
    /\ pc' = "done"
    /\ UNCHANGED <<scene, stack, visited, pending_meshes, mesh_index,
                   batch_index, glVars, mapped, gl_calls, historyVars>>
    /\ UNCHANGED clientVars

\* The caller goes on to its next frame; the histories start afresh.
NextFrame ==
    /\ pc = "done"
    /\ pc' = "idle"
    /\ scene' = NoScene
    /\ visited' = {}
    /\ mesh_index' = 1
    /\ batch_index' = 1
    /\ mapped' = <<>>
    /\ gl_calls' = <<>>
    /\ draw_calls' = <<>>
    /\ tessellated' = <<>>
    /\ added' = <<>>
    /\ UNCHANGED <<stack, pending_meshes, pending_batches, batch_objects, glVars, context>>
    /\ UNCHANGED clientVars

Next ==
    \/ RenderSceneBegin
    \/ VisitNode
    \/ SkipNode
    \/ SortMeshes
    \/ Render
    \/ BatchMesh
    \/ BatchMeshOutOfStore
    \/ BatchMeshesEnd
    \/ RenderBatch
    \/ RenderBatchPanic
    \/ RenderBatchesEnd
    \/ NextFrame

Spec == Init /\ [][Next]_vars

\* ------------------------------------------------- tessellation, node by node
\* render_scene on scene graphs of one node whose value ranges over the
\* rectangles, sprites, lines and texts within MaxExtent and MaxTextLen, and
\* on scene graphs of a root and one child.

Extents == {F32(n) : n \in 0..MaxExtent}
Colors == {<<r, g, b>> : r \in {F32(0), F32(1)}, g \in {F32(0), F32(1)}, b \in {F32(0), F32(1)}}
Points == {<<x, y, F32(0)>> : x \in Extents, y \in Extents}
Characters == {"a", "b", "c"}
Texts == UNION {[1..n -> Characters] : n \in 0..MaxTextLen}

RectangleValues ==
    {[kind |-> "RectangleNode", width |-> w, height |-> h, color |-> c] :
        w \in Extents, h \in Extents, c \in Colors}
SpriteValues ==
    {[kind |-> "SpriteNode", width |-> w, height |-> h, texture_identifier |-> t] :
        w \in Extents, h \in Extents, t \in {"64x64", "64x64b"}}
LineValues ==
    {[kind |-> "LineNode", first_point |-> p0, second_point |-> p1,
      color |-> <<F32(1), F32(1), F32(1), F32(1)>>] :
        p0 \in Points, p1 \in Points}
TextValues ==
    {[kind |-> "TextNode", text |-> t, font_identifier |-> f] :
        t \in Texts, f \in {"default_font2", "missing_font"}}

\* The values of the scene graphs of two nodes
PairValues == {RectangleValue, TextABValue, SpriteNoTextureValue, TextACValue}

TessellationScenes ==
    {[parent |-> <<0>>, identifier |-> <<1>>, value |-> <<v>>] :
        v \in {GroupValue} \cup RectangleValues \cup SpriteValues
                  \cup LineValues \cup TextValues}
    \cup {[parent |-> <<0, 1>>, identifier |-> d, value |-> v] :
        d \in {<<1, 2>>, <<1, 1>>}, v \in [1..2 -> PairValues]}

\* render_scene is called with one of these scene graphs.
TessellationBegin ==
    /\ pc = "idle"
    /\ \E s \in TessellationScenes : scene' = s
    /\ stack' = <<1>>
    /\ visited' = {}
    /\ pc' = "traverse"
    /\ UNCHANGED <<rendererVars, glVars, context, mapped, gl_calls, historyVars>>
    /\ UNCHANGED clientVars

TessellationNext ==
    \/ TessellationBegin
    \/ VisitNode
    \/ SkipNode
    \/ SortMeshes
    \/ Render
    \/ BatchMesh
    \/ BatchMeshOutOfStore
    \/ BatchMeshesEnd
    \/ RenderBatch
    \/ RenderBatchPanic
    \/ RenderBatchesEnd
    \/ NextFrame

TessellationSpec == Init /\ [][TessellationNext]_vars

\* ------------------------------------------------------- traversal of graphs
\* render_scene on scene graphs of at most MaxGraphNodes nodes, every node a
\* line of its own: trees with identifiers that may repeat, and trees with
\* one more edge from any node to any node (to itself, to an ancestor, to a
\* node that has another parent).  No resource is needed and the lines of a
\* scene fit a batch, so that nothing panics and no range is out of a store.

\* The line of node i: from (i, 0, 0) to (i, 1, 0)
NodeLine(i) ==
    [kind |-> "LineNode", first_point |-> <<F32(i), F32(0), F32(0)>>,
     second_point |-> <<F32(i), F32(1), F32(0)>>,
     color |-> <<F32(1), F32(1), F32(1), F32(1)>>]

\* No node has a child besides those whose parent it is.
NoLinks(n) == [i \in 1..n |-> <<>>]

GraphsOfSize(n) ==
    {[parent |-> p, identifier |-> d, value |-> [i \in 1..n |-> NodeLine(i)],
      links |-> NoLinks(n)] :
        p \in Parents(n), d \in SharedIdentifiers(n)}
    \cup {[parent |-> p, identifier |-> [i \in 1..n |-> i],
           value |-> [i \in 1..n |-> NodeLine(i)],
           links |-> [NoLinks(n) EXCEPT ![from] = <<to>>]] :
        p \in Parents(n), from \in 1..n, to \in 1..n}

TraversalScenes == UNION {GraphsOfSize(n) : n \in 1..MaxGraphNodes}

\* render_scene is called with one of these scene graphs.
TraversalBegin ==
    /\ pc = "idle"
    /\ \E s \in TraversalScenes : scene' = s
    /\ stack' = <<1>>
    /\ visited' = {}
    /\ pc' = "traverse"
    /\ UNCHANGED <<rendererVars, glVars, context, mapped, gl_calls, historyVars>>
    /\ UNCHANGED clientVars

TraversalNext ==
    \/ TraversalBegin
    \/ VisitNode
    \/ SkipNode
    \/ SortMeshes
    \/ Render
    \/ BatchMesh
    \/ BatchMeshesEnd
    \/ RenderBatch
    \/ RenderBatchesEnd
    \/ NextFrame

TraversalSpec == Init /\ [][TraversalNext]_vars

\* The scene graphs of at most MaxCyclicNodes nodes among them
CyclicScenes == UNION {GraphsOfSize(n) : n \in 1..MaxCyclicNodes}

\* render_scene is called with one of those.
TraversalLiveBegin ==
    /\ pc = "idle"
    /\ \E s \in CyclicScenes : scene' = s
    /\ stack' = <<1>>
    /\ visited' = {}
    /\ pc' = "traverse"
    /\ UNCHANGED <<rendererVars, glVars, context, mapped, gl_calls, historyVars>>
    /\ UNCHANGED clientVars

TraversalLiveNext ==
    \/ TraversalLiveBegin
    \/ VisitNode
    \/ SkipNode
    \/ SortMeshes
    \/ Render
    \/ BatchMesh
    \/ BatchMeshesEnd
    \/ RenderBatch
    \/ RenderBatchesEnd
    \/ NextFrame

\* render_scene runs on its own: an iteration of its loop that can be taken
\* is taken, and so is the call of render() after the loop.
TraversalLiveSpec ==
    /\ Init /\ [][TraversalLiveNext]_vars
    /\ WF_vars(VisitNode)
    /\ WF_vars(SkipNode)
    /\ WF_vars(SortMeshes)

\* ============================================================== properties

\* The meshes the traversal has pushed, in the order it pushed them: those
\* of the nodes tessellated.
Pushed ==
    Concat([i \in 1..Len(tessellated) |->
               render_scene_node(scene.value[tessellated[i]]).meshes])

\* The configurations of the meshes of p
AttributesOf(p) == {p[i].attributes : i \in 1..Len(p)}

\* The subsequence of the meshes of p that have configuration a
MeshesWith(p, a) == SelectSeq(p, LAMBDA m : m.attributes = a)

\* The position in p of the first mesh with configuration a
FirstWith(p, a) ==
    CHOOSE i \in 1..Len(p) :
        /\ p[i].attributes = a
        /\ \A j \in 1..(i - 1) : p[j].attributes # a

\* The configuration of the b-th batch created by this call of render_scene
BatchAttributes(b) == added[b].attributes

\* The number of meshes added to the b-th batch
BatchSize(b) == Len(added[b].meshes)

\* The number of indices of the meshes added to the b-th batch
BatchIndexCount(b) == Sum([k \in 1..BatchSize(b) |-> added[b].meshes[k].indices])

\* The iteration of batch_meshes that is next, if there is one
BatchMeshPending == pc = "batch" /\ mesh_index <= Len(pending_meshes)
NextMesh == pending_meshes[mesh_index]
NextBatch == TargetBatch(pending_batches, NextMesh)

\* C1: in every state of a render pass, the vertex cursor and the index
\* cursor of every batch lie within the storage allocated for its buffers,
\* and add_mesh maps no range outside that storage.
C1_CursorsWithinCapacity ==
    /\ \A b \in 1..Len(pending_batches) :
          /\ pending_batches[b].vertex_count * SizeOfVertex <= pending_batches[b].vbo.size
          /\ pending_batches[b].index_count * SizeOfIndex <= pending_batches[b].ebo.size
    /\ mapped # <<>> =>
          /\ mapped[1][1] + mapped[1][2] <= MAX_BATCH_SIZE
          /\ mapped[2][1] + mapped[2][2] <= MAX_BATCH_SIZE

\* C2: an add_mesh that keeps the batch within N = MAX_BATCH_SIZE vertices
\* and indices succeeds (its writes reach the buffers); an add_mesh that
\* would go past N is refused: render_scene goes on, and the cursors, the
\* highest-index tracker and the buffer contents of the batch are unchanged.
C2_BatchFullLeavesBatchUnchanged ==
    [][BatchMeshPending =>
         IF /\ NextBatch.vertex_count + Len(NextMesh.vertices) <= MAX_BATCH_SIZE
            /\ NextBatch.index_count + Len(NextMesh.indices) <= MAX_BATCH_SIZE
           THEN /\ pc' = "batch"
                /\ add_mesh_in_store(NextBatch, NextMesh)
                /\ pending_batches' = batch_mesh(pending_batches, NextMesh)
           ELSE /\ pc' = "batch"
                /\ pending_batches' = pending_batches]_vars

C4_OneBatchPerConfiguration ==
    /\ \A i, j \in 1..Len(pending_batches) :
          i # j => pending_batches[i].mesh_attributes # pending_batches[j].mesh_attributes
    /\ pc = "render" =>
          LET configurations == AttributesOf(Pushed)
          IN /\ Len(pending_batches) = Cardinality(configurations)
             /\ {pending_batches[b].mesh_attributes : b \in 1..Len(pending_batches)}
                   = configurations

\* Configurations A, A, B, A in traversal order: 2 batches, of 3 and 1 meshes.
C4_Witness ==
    /\ pc = "render"
    /\ LET p == Pushed
       IN /\ Len(p) = 4
          /\ p[1].attributes = p[2].attributes
          /\ p[1].attributes = p[4].attributes
          /\ p[1].attributes # p[3].attributes
    /\ Len(pending_batches) = 2
    /\ {BatchSize(1), BatchSize(2)} = {1, 3}

\* The first n elements of a sequence, all of them if it has fewer
Prefix(s, n) == SubSeq(s, 1, IF n < Len(s) THEN n ELSE Len(s))

\* C5: the meshes of a batch are the meshes of its configuration in the
\* order the traversal pushed them, while batch_meshes runs the first of
\* them and afterwards all of them: the vertex buffer holds their vertices
\* and the index buffer their rebased indices, mesh after mesh in that
\* order (as far as the buffers reach).
C5_StableWithinBatch ==
    LET p == Pushed
    IN
    \A b \in 1..Len(pending_batches) :
        LET batch == pending_batches[b]
            ms == MeshesWith(p, batch.mesh_attributes)
            n == BatchSize(b)
        IN /\ n <= Len(ms)
           /\ pc = "render" => n = Len(ms)
           /\ \A k \in 1..n :
                 /\ added[b].meshes[k].vertices = Len(ms[k].vertices)
                 /\ added[b].meshes[k].indices = Len(ms[k].indices)
           /\ batch.vbo.data
                 = Prefix(Concat([k \in 1..n |-> ms[k].vertices]),
                          Len(batch.vbo.data))
           /\ batch.ebo.data
                 = Prefix(Concat([k \in 1..n |->
                             [j \in 1..Len(ms[k].indices) |->
                                 ms[k].indices[j] + added[b].meshes[k].vertex_count]]),
                          Len(batch.ebo.data))
           /\ batch.vertex_count * SizeOfVertex <= batch.vbo.size
                 => Len(batch.vbo.data) = batch.vertex_count
           /\ batch.index_count * SizeOfIndex <= batch.ebo.size
                 => Len(batch.ebo.data) = batch.index_count

\* A complete batch of two different meshes, beside another batch.
C5_Witness ==
    /\ pc = "render"
    /\ Len(pending_batches) >= 2
    /\ \E b \in 1..Len(pending_batches) :
          /\ BatchSize(b) >= 2
          /\ Len(pending_batches[b].vbo.data) = 4 * BatchSize(b)
          /\ SubSeq(pending_batches[b].vbo.data, 1, 4)
                # SubSeq(pending_batches[b].vbo.data, 5, 8)

\* C6 as claimed: the batches are drawn in the order in which the traversal
\* first introduced their configurations.
C6_BatchOrderIsFirstIntroductionOrder ==
    pc \in {"render", "done"} =>
        LET p == Pushed
            first == [b \in 1..Len(added) |-> FirstWith(p, BatchAttributes(b))]
        IN \A i, j \in 1..Len(added) : i < j => first[i] < first[j]

\* C6 as amended: the batches are drawn in the ascending order of their
\* configurations; of two configurations the one introduced first is drawn
\* first if and only if it is the lesser one in the order of sort_meshes:
\* texture_identifier, then font_identifier, then draw_mode, None before Some.
C6_BatchOrderIsSortOrder ==
    /\ \A k \in 1..Len(draw_calls) : draw_calls[k].mode = BatchAttributes(k).draw_mode
    /\ pc \in {"render", "done"} =>
        LET p == Pushed
            first == [b \in 1..Len(added) |-> FirstWith(p, BatchAttributes(b))]
        IN
        \A i, j \in 1..Len(added) :
            first[i] < first[j]
                => (i < j <=> \/ /\ BatchAttributes(i).texture_identifier = None
                                 /\ BatchAttributes(j).texture_identifier # None
                              \/ /\ BatchAttributes(i).texture_identifier
                                       = BatchAttributes(j).texture_identifier
                                 /\ BatchAttributes(i).font_identifier = None
                                 /\ BatchAttributes(j).font_identifier # None
                              \/ /\ BatchAttributes(i).texture_identifier
                                       = BatchAttributes(j).texture_identifier
                                 /\ BatchAttributes(i).font_identifier
                                       = BatchAttributes(j).font_identifier
                                 /\ BatchAttributes(i).draw_mode
                                       < BatchAttributes(j).draw_mode)

\* A sprite is introduced before a line, and the line's batch is drawn first.
C6_Witness ==
    /\ pc = "done"
    /\ Len(added) = 2
    /\ Len(draw_calls) = 2
    /\ Pushed[1].attributes.texture_identifier # None
    /\ BatchAttributes(1).draw_mode = LINES
    /\ BatchAttributes(2) = Pushed[1].attributes

\* C7: the draw calls are one per batch, in batch order, each with the draw
\* mode of its batch and the number of indices of the meshes added to it:
\* none before render_batches, one per batch passed while it runs, and one
\* for every batch when render_scene has returned.
C7_OneDrawCallPerBatch ==
    /\ Len(draw_calls) <= Len(added)
    /\ \A k \in 1..Len(draw_calls) :
          draw_calls[k] = [mode |-> BatchAttributes(k).draw_mode,
                           count |-> BatchIndexCount(k)]
    /\ pc \in {"traverse", "batch"} => draw_calls = <<>>
    /\ pc = "render" => Len(draw_calls) = batch_index - 1 /\ Len(added) = Len(pending_batches)
    /\ pc = "done" => Len(draw_calls) = Len(added)

\* Two batches drawn, one of them with the indices of several meshes.
C7_Witness ==
    /\ pc = "done"
    /\ Len(draw_calls) >= 2
    /\ \E k \in 1..Len(draw_calls) :
          BatchSize(k) >= 2 /\ draw_calls[k].count = 6 * BatchSize(k)

\* C8: when render_scene has returned, pending_meshes and pending_batches
\* are empty; so a traversal starts with no batch and only its own meshes
\* pending, every batch starts from cursors 0, and a batch holds the
\* vertices of meshes of the running call only.
C8_NothingPendingAfterRender ==
    /\ pc \in {"done", "idle"} => pending_meshes = <<>> /\ pending_batches = <<>>
    /\ pc = "traverse" => pending_batches = <<>> /\ pending_meshes = Pushed
    /\ LET p == Pushed
           own == UNION {Range(p[i].vertices) : i \in 1..Len(p)}
       IN
       \A b \in 1..Len(pending_batches) :
          /\ added[b].meshes[1].vertex_count = 0
          /\ added[b].meshes[1].index_count = 0
          /\ Range(pending_batches[b].vbo.data) \subseteq own
          /\ pending_batches[b].vertex_count
                = Sum([k \in 1..BatchSize(b) |-> added[b].meshes[k].vertices])

\* A batch of a later frame: a texture bound by an earlier call of
\* render_scene is still bound while batch_meshes fills a batch.
C8_Witness ==
    /\ pc = "batch"
    /\ bound_texture # "none"
    /\ Len(pending_batches) >= 1
    /\ pending_batches[1].vertex_count > 0

\* A scene graph whose root has no renderable value and no children
EmptySceneGraph(s) ==
    /\ Len(s.parent) = 1
    /\ s.value[1].kind \notin {"RectangleNode", "LineNode", "SpriteNode", "TextNode"}

\* C9: rendering an empty scene graph produces no mesh, no batch and no
\* draw call.
C9_EmptySceneDrawsNothing ==
    (EmptySceneGraph(scene) /\ pc # "idle") =>
        /\ pending_meshes = <<>>
        /\ added = <<>>
        /\ pending_batches = <<>>
        /\ draw_calls = <<>>

C9_Witness == EmptySceneGraph(scene) /\ pc = "done" /\ tessellated = <<1>>

\* The traversal is over and did not panic.
Traversed == pc \in {"batch", "render", "done"}

\* C10: no two nodes tessellated carry the same identifier; a node is
\* tessellated only if it is the root or its parent was (the children of a
\* node that is skipped are not pushed); the meshes pending during the
\* traversal are those of the nodes tessellated; and when the traversal is
\* over, every identifier carried by the root or by a child of a tessellated
\* node was tessellated.
C10_EachIdentifierTessellatedOnce ==
    /\ \A i, j \in 1..Len(tessellated) :
          i # j => scene.identifier[tessellated[i]] # scene.identifier[tessellated[j]]
    /\ \A i \in 1..Len(tessellated) :
          tessellated[i] = 1 \/ scene.parent[tessellated[i]] \in Range(tessellated)
    /\ pc = "traverse" => pending_meshes = Pushed
    /\ Traversed =>
          \A n \in 1..Len(scene.parent) :
              (n = 1 \/ scene.parent[n] \in Range(tessellated))
                  => \E i \in 1..Len(tessellated) :
                        scene.identifier[tessellated[i]] = scene.identifier[n]

\* A node with the identifier of a node visited before was skipped: it has a
\* renderable value and a child, and neither was tessellated.
C10_Witness ==
    /\ pc = "done"
    /\ \E n, m \in 1..Len(scene.parent) :
          /\ n \notin Range(tessellated)
          /\ scene.parent[n] \in Range(tessellated)
          /\ scene.value[n].kind = "TextNode"
          /\ scene.parent[m] = n
          /\ m \notin Range(tessellated)
          /\ scene.identifier[m] \notin {scene.identifier[k] : k \in Range(tessellated)}

\* ------------------------------------------- properties of the tessellation
\* The process died in render_scene_node: no batch exists and add_mesh has
\* mapped nothing in this call of render_scene.
AbortedInTraversal == pc = "aborted" /\ pending_batches = <<>> /\ mapped = <<>>

\* The first node of a traversal has been tessellated and nothing else has
\* happened: pending_meshes holds the meshes of that node and no other.
FirstNodeTessellated ==
    (pc = "traverse" \/ AbortedInTraversal) /\ Len(tessellated) = 1
FirstValue == scene.value[tessellated[1]]

Positions(m) == [i \in 1..Len(m.vertices) |-> m.vertices[i].position]
VertexColors(m) == [i \in 1..Len(m.vertices) |-> m.vertices[i].color]
TextureCoordinates(m) == [i \in 1..Len(m.vertices) |-> m.vertices[i].texture_coordinates]

\* C11: tessellating Rectangle(w, h, c) pushes exactly one mesh: 4 vertices
\* at (0,0), (0,h), (w,h), (w,0) in that order, indices 0,1,2,2,0,3, every
\* vertex of color c, configuration Triangles with no texture and no font.
C11_RectangleTessellation ==
    (FirstNodeTessellated /\ FirstValue.kind = "RectangleNode") =>
        /\ pc = "traverse"
        /\ Len(pending_meshes) = 1
        /\ Positions(pending_meshes[1])
              = << <<0, 0, 0>>, <<0, FirstValue.height, 0>>,
                   <<FirstValue.width, FirstValue.height, 0>>,
                   <<FirstValue.width, 0, 0>> >>
        /\ pending_meshes[1].indices = <<0, 1, 2, 2, 0, 3>>
        /\ VertexColors(pending_meshes[1])
              = <<FirstValue.color, FirstValue.color, FirstValue.color, FirstValue.color>>
        /\ pending_meshes[1].attributes
              = [texture_identifier |-> <<>>, font_identifier |-> <<>>, draw_mode |-> 4]

\* Rectangle(width 2, height 3, color (1,0,0)): vertices at (0,0), (0,3),
\* (2,3), (2,0).
C11_Witness ==
    /\ FirstNodeTessellated
    /\ FirstValue = [kind |-> "RectangleNode", width |-> 2048, height |-> 3072,
                     color |-> <<1024, 0, 0>>]
    /\ Positions(pending_meshes[1])
          = << <<0, 0, 0>>, <<0, 3072, 0>>, <<2048, 3072, 0>>, <<2048, 0, 0>> >>

\* C12: tessellating Sprite(width, height, texture_id) pushes exactly one
\* mesh: the quad of a rectangle of that width and height with indices
\* 0,1,2,2,0,3, every vertex white, texture coordinates (0,0), (0,1), (1,1),
\* (1,0) at the corners (0,0), (0,h), (w,h), (w,0), configuration Triangles
\* with texture texture_id and no font.
C12_SpriteTessellation ==
    (FirstNodeTessellated /\ FirstValue.kind = "SpriteNode") =>
        /\ pc = "traverse"
        /\ Len(pending_meshes) = 1
        /\ Positions(pending_meshes[1])
              = << <<0, 0, 0>>, <<0, FirstValue.height, 0>>,
                   <<FirstValue.width, FirstValue.height, 0>>,
                   <<FirstValue.width, 0, 0>> >>
        /\ pending_meshes[1].indices = <<0, 1, 2, 2, 0, 3>>
        /\ VertexColors(pending_meshes[1])
              = [i \in 1..4 |-> <<1024, 1024, 1024>>]
        /\ TextureCoordinates(pending_meshes[1])
              = << <<0, 0>>, <<0, 1024>>, <<1024, 1024>>, <<1024, 0>> >>
        /\ pending_meshes[1].attributes
              = [texture_identifier |-> <<FirstValue.texture_identifier>>,
                 font_identifier |-> <<>>, draw_mode |-> 4]

\* A sprite of width 2 and height 1 with texture "64x64".
C12_Witness ==
    /\ FirstNodeTessellated
    /\ FirstValue = [kind |-> "SpriteNode", width |-> 2048, height |-> 1024,
                     texture_identifier |-> "64x64"]
    /\ Len(pending_meshes) = 1
    /\ pending_meshes[1].vertices[3]
          = [position |-> <<2048, 1024, 0>>, color |-> <<1024, 1024, 1024>>,
             texture_coordinates |-> <<1024, 1024>>]

\* C13: tessellating Line(p0, p1, color) pushes exactly one mesh: 2
\* vertices at p0 and p1 in that order, indices 0,1, configuration Lines
\* with no texture and no font.
C13_LineTessellation ==
    (FirstNodeTessellated /\ FirstValue.kind = "LineNode") =>
        /\ pc = "traverse"
        /\ Len(pending_meshes) = 1
        /\ Positions(pending_meshes[1])
              = <<FirstValue.first_point, FirstValue.second_point>>
        /\ pending_meshes[1].indices = <<0, 1>>
        /\ pending_meshes[1].attributes
              = [texture_identifier |-> <<>>, font_identifier |-> <<>>, draw_mode |-> 1]

\* A line from (0,1) to (2,0).
C13_Witness ==
    /\ FirstNodeTessellated
    /\ FirstValue.kind = "LineNode"
    /\ Positions(pending_meshes[1]) = << <<0, 1024, 0>>, <<2048, 0, 0>> >>

\* The font of a text node is in the font store.
FontFound(v) == v.font_identifier \in DOMAIN font_store

\* The characters of the font of a text node whose font is in the store
Glyphs(v) == font_store[v.font_identifier].metadata.characters

\* The positions of the characters of a text node that are not in its font
MissingGlyphs(v) == {k \in 1..Len(v.text) : v.text[k] \notin DOMAIN Glyphs(v)}

\* A text node whose font is in the store and has all its characters
CompleteText(v) == v.kind = "TextNode" /\ FontFound(v) /\ MissingGlyphs(v) = {}

\* An atlas length in pixels scaled by the atlas size of 1024 pixels, as a
\* number of 1/1024ths
Scaled(pixels) == pixels \div 1024

\* C14: tessellating a text node of n characters that are all in its font
\* pushes exactly n meshes, the k-th being the quad (4 vertices, indices
\* 0,1,2,2,0,3) of the glyph of the k-th character, all of configuration
\* {Triangles, font font_id, no texture}; the meshes of a scene graph made
\* of that node alone are batched into one batch (no batch if n = 0).
C14_TextTessellation ==
    /\ (FirstNodeTessellated /\ CompleteText(FirstValue)) =>
          /\ pc = "traverse"
          /\ Len(pending_meshes) = Len(FirstValue.text)
          /\ \A k \in 1..Len(pending_meshes) :
                /\ Len(pending_meshes[k].vertices) = 4
                /\ pending_meshes[k].indices = <<0, 1, 2, 2, 0, 3>>
                /\ pending_meshes[k].attributes
                      = [texture_identifier |-> <<>>,
                         font_identifier |-> <<FirstValue.font_identifier>>,
                         draw_mode |-> 4]
                /\ pending_meshes[k].vertices[1].texture_coordinates
                      = <<Scaled(Glyphs(FirstValue)[FirstValue.text[k]].x_coordinate),
                          -Scaled(Glyphs(FirstValue)[FirstValue.text[k]].y_coordinate)>>
    /\ (pc = "render" /\ Len(scene.parent) = 1 /\ CompleteText(scene.value[1])) =>
          IF Len(scene.value[1].text) = 0
             THEN pending_batches = <<>>
             ELSE /\ Len(pending_batches) = 1
                  /\ Len(added[1].meshes) = Len(scene.value[1].text)
                  /\ pending_batches[1].vertex_count = 4 * Len(scene.value[1].text)
                  /\ pending_batches[1].index_count = 6 * Len(scene.value[1].text)

\* The text "aba": 3 meshes in one batch.
C14_Witness ==
    /\ pc = "render"
    /\ Len(scene.parent) = 1
    /\ scene.value[1].kind = "TextNode"
    /\ scene.value[1].text = <<"a", "b", "a">>
    /\ Len(pending_batches) = 1
    /\ Len(added[1].meshes) = 3
    /\ pending_batches[1].index_count = 18

\* C15: the quad of the k-th character of a text starts at the sum of the
\* scaled x-advances of the k-1 characters before it (0 for the first).
C15_CursorAdvancesByXAdvance ==
    (FirstNodeTessellated /\ CompleteText(FirstValue)) =>
        \A k \in 1..Len(pending_meshes) :
            pending_meshes[k].vertices[1].position[1]
                = Sum([j \in 1..(k - 1) |->
                          Scaled(Glyphs(FirstValue)[FirstValue.text[j]].x_advance)])

\* The last node tessellated
LastValue == scene.value[tessellated[Len(tessellated)]]

\* C16: when the text node tessellated last has its font in the store and a
\* character that is not in the font, the process has died in
\* render_scene_node: nothing is batched or drawn; and if it is the first
\* node of the traversal, the meshes pushed are those of the characters
\* before the first one missing: none is skipped, none is substituted.
C16_MissingGlyphAborts ==
    (/\ tessellated # <<>>
     /\ LastValue.kind = "TextNode"
     /\ FontFound(LastValue)
     /\ MissingGlyphs(LastValue) # {}) =>
        /\ AbortedInTraversal
        /\ draw_calls = <<>>
        /\ added = <<>>
        /\ Len(tessellated) = 1 =>
              LET first == CHOOSE k \in MissingGlyphs(LastValue) :
                               \A j \in MissingGlyphs(LastValue) : k <= j
              IN /\ Len(pending_meshes) = first - 1
                 /\ \A k \in 1..(first - 1) :
                       pending_meshes[k].vertices[1].texture_coordinates
                           = <<Scaled(Glyphs(LastValue)[LastValue.text[k]].x_coordinate),
                               -Scaled(Glyphs(LastValue)[LastValue.text[k]].y_coordinate)>>

\* The text "bca": the process died at 'c' with the mesh of 'b' pending.
C16_Witness ==
    /\ pc = "aborted"
    /\ tessellated = <<1>>
    /\ scene.value[1].kind = "TextNode"
    /\ scene.value[1].text = <<"b", "c", "a">>
    /\ FontFound(scene.value[1])
    /\ Len(pending_meshes) = 1

\* A sprite whose texture or a text whose font is not in its store
MissingResource(v) ==
    \/ v.kind = "SpriteNode" /\ v.texture_identifier \notin DOMAIN texture_store
    \/ v.kind = "TextNode" /\ v.font_identifier \notin DOMAIN font_store

\* The resources of a configuration are in their stores.
ResourcesFound(a) ==
    /\ a.texture_identifier # <<>> => a.texture_identifier[1] \in DOMAIN texture_store
    /\ a.font_identifier # <<>> => a.font_identifier[1] \in DOMAIN font_store

\* C17 as claimed: if a sprite or a text node of the scene names a texture
\* or a font that is not in its store, render_scene does not complete.
C17_MissingResourceOfAnyNodeFails ==
    (\E n \in 1..Len(scene.parent) : MissingResource(scene.value[n])) => pc # "done"

\* C17 as amended: if a sprite or a text node that the traversal
\* tessellates names a texture or a font that is not in its store,
\* render_scene does not complete; and no batch is ever drawn whose texture
\* or font is not in its store.
C17_MissingResourceOfTessellatedNodeFails ==
    /\ (\E i \in 1..Len(tessellated) : MissingResource(scene.value[tessellated[i]]))
          => pc # "done"
    /\ \A k \in 1..Len(draw_calls) : ResourcesFound(added[k].attributes)

\* A rectangle and a sprite whose texture is missing: the batch of the
\* rectangle was drawn, and the process died at the batch of the sprite.
C17_Witness ==
    /\ pc = "aborted"
    /\ Len(pending_batches) = 2
    /\ batch_index = 2
    /\ Len(draw_calls) = 1
    /\ ~ResourcesFound(pending_batches[2].mesh_attributes)
    /\ \E i \in 1..Len(tessellated) : MissingResource(scene.value[tessellated[i]])

\* At most one of the texture identifier and the font identifier is set.
AtMostOneResource(a) == a.texture_identifier = <<>> \/ a.font_identifier = <<>>

\* C27: every mesh the traversal pushes from a Rectangle, Sprite, Line or
\* Text node has a configuration with at most one of the texture
\* identifier and the font identifier set, and so has every batch that
\* render_batches goes through.
C27_TextureAndFontExclusive ==
    /\ \A i \in 1..Len(pending_meshes) : AtMostOneResource(pending_meshes[i].attributes)
    /\ \A b \in 1..Len(pending_batches) :
          AtMostOneResource(pending_batches[b].mesh_attributes)
    /\ \A i \in 1..Len(tessellated) :
          LET pushed == render_scene_node(scene.value[tessellated[i]]).meshes
          IN \A k \in 1..Len(pushed) : AtMostOneResource(pushed[k].attributes)

\* render_batches goes through a batch tagged with a font and a batch
\* tagged with a texture.
C27_Witness ==
    /\ pc = "render"
    /\ Len(pending_batches) = 2
    /\ pending_batches[1].mesh_attributes.font_identifier # <<>>
    /\ pending_batches[2].mesh_attributes.texture_identifier # <<>>
    /\ Len(tessellated) = 2

\* ------------------------------------------------- properties of the batches

\* The sorted pending list batch_meshes goes through: pending_meshes until
\* batch_meshes clears it
SortedMeshes == IF pending_meshes # <<>> THEN pending_meshes ELSE sort_by_key(Pushed)

\* The positions in the sorted pending list of the meshes added to the
\* batches, batch after batch
AddedPositions ==
    Concat([b \in 1..Len(added) |->
               [k \in 1..BatchSize(b) |-> added[b].meshes[k].position]])

\* C22: every mesh added to a batch has the configuration of the batch in
\* its three fields; the meshes are added in the order of the sorted
\* pending list, each to the open (last) batch if its configuration is that
\* of the open batch, and otherwise to a new batch of its configuration: so
\* a batch never has the configuration of the batch before it.
C22_BatchesAreHomogeneous ==
    pending_batches # <<>> =>
        LET meshes == SortedMeshes
        IN /\ Len(added) = Len(pending_batches)
           /\ \A b \in 1..Len(pending_batches) :
                 LET c == pending_batches[b].mesh_attributes
                 IN /\ BatchSize(b) >= 1
                    /\ \A k \in 1..BatchSize(b) :
                          LET a == meshes[added[b].meshes[k].position].attributes
                          IN /\ a.texture_identifier = c.texture_identifier
                             /\ a.font_identifier = c.font_identifier
                             /\ a.draw_mode = c.draw_mode
                    /\ b > 1 => c # pending_batches[b - 1].mesh_attributes
           /\ AddedPositions = [i \in 1..Len(AddedPositions) |-> i]
           /\ pc = "batch" => Len(AddedPositions) = mesh_index - 1

\* Two batches of different configurations, the first of two meshes.
C22_Witness ==
    /\ pc = "batch"
    /\ mesh_index = 4
    /\ Len(pending_batches) = 2
    /\ BatchSize(1) = 2
    /\ BatchSize(2) = 1
    /\ pending_batches[1].mesh_attributes.draw_mode
          = pending_batches[2].mesh_attributes.draw_mode
    /\ pending_batches[1].mesh_attributes.texture_identifier
          # pending_batches[2].mesh_attributes.texture_identifier

\* The names of the buffers and of the vertex arrays the batches hold
OwnedBuffers ==
    UNION {{batch_objects[b].vbo, batch_objects[b].ebo} : b \in 1..Len(batch_objects)}
OwnedVertexArrays == {batch_objects[b].vao : b \in 1..Len(batch_objects)}

\* C28: unless the process has died, every batch holds a vertex buffer, an
\* index buffer and a vertex array that no other batch holds, the objects
\* in use in the GL context are those the batches hold, and when
\* render_scene has returned (after any number of calls) the batches have
\* been dropped and no buffer and no vertex array is in use: none is
\* leaked, none is deleted twice.
C28_BatchesOwnAndDestroyTheirObjects ==
    pc # "aborted" =>
        /\ Len(batch_objects) = Len(pending_batches)
        /\ \A b \in 1..Len(batch_objects) :
              /\ batch_objects[b].vbo # batch_objects[b].ebo
              /\ \A other \in 1..Len(batch_objects) :
                    other # b =>
                        /\ batch_objects[b].vao # batch_objects[other].vao
                        /\ {batch_objects[b].vbo, batch_objects[b].ebo}
                              \cap {batch_objects[other].vbo, batch_objects[other].ebo} = {}
        /\ context.buffers = OwnedBuffers
        /\ context.vertex_arrays = OwnedVertexArrays
        /\ Cardinality(context.buffers) = 2 * Len(pending_batches)
        /\ Cardinality(context.vertex_arrays) = Len(pending_batches)
        /\ pc \in {"done", "idle"} =>
              /\ pending_batches = <<>>
              /\ context.buffers = {}
              /\ context.vertex_arrays = {}

\* render_scene has returned after drawing two batches, in a frame after
\* one that bound a texture: nothing is in use.
C28_Witness ==
    /\ pc = "done"
    /\ Len(draw_calls) = 2
    /\ Len(added) = 2
    /\ bound_texture # "none"
    /\ draw_calls[1].mode = draw_calls[2].mode
    /\ context.buffers = {}
    /\ context.vertex_arrays = {}

\* The calls of an add_mesh on the buffers named vbo and ebo, each with its
\* target and the name it passes
MatchedPairs(vbo, ebo) ==
    << <<"BindBuffer", "ARRAY_BUFFER", vbo>>,
       <<"MapBufferRange", "ARRAY_BUFFER", 0>>,
       <<"write", "ARRAY_BUFFER", 0>>,
       <<"UnmapBuffer", "ARRAY_BUFFER", 0>>,
       <<"BindBuffer", "ARRAY_BUFFER", 0>>,
       <<"BindBuffer", "ELEMENT_ARRAY_BUFFER", ebo>>,
       <<"MapBufferRange", "ELEMENT_ARRAY_BUFFER", 0>>,
       <<"write", "ELEMENT_ARRAY_BUFFER", 0>>,
       <<"UnmapBuffer", "ELEMENT_ARRAY_BUFFER", 0>>,
       <<"BindBuffer", "ELEMENT_ARRAY_BUFFER", 0>> >>

\* C29: an add_mesh that has returned has called, on the vertex buffer of
\* its batch and then on the index buffer, bind, map, write, unmap and
\* unbind in this order, the calls on the one not interleaved with the
\* calls on the other; and then no buffer is bound to ARRAY_BUFFER or to
\* ELEMENT_ARRAY_BUFFER and no buffer is mapped.
C29_MatchedBindUnbindPairs ==
    (pc = "batch" /\ mesh_index > 1) =>
        LET objects == batch_objects[Len(batch_objects)]
        IN /\ [k \in 1..Len(gl_calls) |->
                  <<gl_calls[k].call, gl_calls[k].target, gl_calls[k].name>>]
                 = MatchedPairs(objects.vbo, objects.ebo)
           /\ context.array_buffer = 0
           /\ context.element_array_buffer[context.vertex_array] = 0
           /\ context.mapped = {}

\* The first mesh of a second batch has been added: to the buffers 3 and 4.
C29_Witness ==
    /\ pc = "batch"
    /\ mesh_index = 3
    /\ Len(pending_batches) = 2
    /\ context.buffers = {1, 2, 3, 4}
    /\ gl_calls[1].name = 3
    /\ gl_calls[6].name = 4
    /\ gl_calls[2].ok
    /\ context.array_buffer = 0

\* C30: in every batch render_scene builds (of quads with the indices
\* 0, 1, 2, 2, 0, 3 over 4 vertices, or of lines with the indices 0, 1 over
\* 2 vertices), after every add_mesh the highest-index tracker is the vertex
\* count minus 1, so that the offset of the next mesh is the vertex count,
\* and every index in the index buffer is less than the vertex count.
C30_TrackerIsVertexCountMinusOne ==
    \A b \in 1..Len(pending_batches) :
        LET batch == pending_batches[b]
        IN /\ batch.vertex_count >= 2
           /\ batch.last_index = batch.vertex_count - 1
           /\ index_offset(batch.last_index) = batch.vertex_count
           /\ \A j \in 1..Len(batch.ebo.data) : batch.ebo.data[j] < batch.vertex_count
           /\ \A k \in 1..BatchSize(b) :
                 \/ added[b].meshes[k].vertices = 4 /\ added[b].meshes[k].indices = 6
                 \/ added[b].meshes[k].vertices = 2 /\ added[b].meshes[k].indices = 2

\* A batch of two quads and a batch of two lines
C30_Witness ==
    /\ pc = "render"
    /\ Len(pending_batches) = 2
    /\ pending_batches[1].vertex_count = 4
    /\ pending_batches[1].last_index = 3
    /\ pending_batches[1].ebo.data = <<0, 1, 2, 3>>
    /\ pending_batches[2].vertex_count = 8
    /\ pending_batches[2].last_index = 7

\* ----------------------------------------------- properties of the traversal

\* The scene graph is a tree.
IsTree(s) == s.links = NoLinks(Len(s.parent))

\* The identifiers of the nodes are distinct.
DistinctIdentifiers(s) ==
    \A i, j \in 1..Len(s.identifier) : i # j => s.identifier[i] # s.identifier[j]

\* The reverse of a sequence
Reverse(q) == [i \in 1..Len(q) |-> q[Len(q) + 1 - i]]

\* The nodes of a tree whose parent is `node`, in ascending node number:
\* the order they were added in
ChildrenInOrder(s, node) ==
    LET cs == {i \in 1..Len(s.parent) : s.parent[i] = node}
        RECURSIVE Ascending(_)
        Ascending(S) == IF S = {} THEN <<>>
                        ELSE LET m == CHOOSE x \in S : \A y \in S : x <= y
                             IN <<m>> \o Ascending(S \ {m})
    IN Ascending(cs)

\* The depth-first pre-order of the subtree of `node` that takes the
\* children of every node in the reverse of their iteration order
RECURSIVE PreOrder(_, _)
PreOrder(s, node) ==
    LET cs == Reverse(ChildrenInOrder(s, node))
    IN <<node>> \o Concat([k \in 1..Len(cs) |-> PreOrder(s, cs[k])])

\* The position of a node in a sequence of distinct nodes
PositionIn(q, node) == CHOOSE i \in 1..Len(q) : q[i] = node

\* C23: on a tree, the nodes are tessellated in the depth-first pre-order
\* that starts with the root, takes the children of a node in the reverse
\* of their iteration order and the whole subtree of a child before the
\* next sibling (the nodes tessellated so far are a prefix of that order if
\* the identifiers are distinct, and come in that order if nodes are
\* skipped); until they are sorted, the pending meshes are the meshes of
\* the nodes tessellated, in the order the nodes were tessellated.
C23_DepthFirstPreOrder ==
    (scene # NoScene /\ IsTree(scene)) =>
        LET order == PreOrder(scene, 1)
        IN /\ \A i, j \in 1..Len(tessellated) :
                 i < j => PositionIn(order, tessellated[i]) < PositionIn(order, tessellated[j])
           /\ DistinctIdentifiers(scene) =>
                 /\ tessellated = Prefix(order, Len(tessellated))
                 /\ (pc # "traverse" \/ stack = <<>>) => tessellated = order
           /\ pc = "traverse" =>
                 pending_meshes
                     = [i \in 1..Len(tessellated) |->
                           render_line_node(NodeLine(tessellated[i])).meshes[1]]

\* The root has children 2 and 3, and 3 has child 4: the order is 1, 3, 4, 2.
C23_Witness ==
    /\ pc = "traverse"
    /\ stack = <<>>
    /\ scene.parent = <<0, 1, 1, 3>>
    /\ IsTree(scene)
    /\ tessellated = <<1, 3, 4, 2>>
    /\ [i \in 1..4 |-> pending_meshes[i].vertices[1].position[1]]
          = <<F32(1), F32(3), F32(4), F32(2)>>

\* render() is running or has returned.
InRender == pc \in {"batch", "render", "done"}

\* C24: the traversal of render_scene terminates for every scene graph,
\* also if a node is reached through several parents or through a cycle:
\* a traversal under way leads to the stack being empty and render()
\* having been entered; render() is entered from the traversal only when
\* the stack is empty, and once entered it is not entered again before
\* render_scene has returned.
C24_TraversalTerminates ==
    /\ (pc = "traverse") ~> (pc = "batch" /\ stack = <<>>)
    /\ [][/\ (pc = "traverse" /\ pc' # "traverse") => (stack = <<>> /\ pc' = "batch")
          /\ (InRender /\ ~InRender') => (pc = "done" /\ pc' = "idle")
          /\ (InRender /\ pc' = "batch") => pc = "batch"]_vars

\* render() has been entered for a scene graph in which node 3 is reached
\* from the root and from node 2.
C24_WitnessSeveralParents ==
    /\ pc = "batch"
    /\ stack = <<>>
    /\ mesh_index = 1
    /\ scene.parent = <<0, 1, 1>>
    /\ scene.links = <<<<>>, <<3>>, <<>>>>
    /\ tessellated = <<1, 3, 2>>

\* render() has been entered for a scene graph with the cycle 1, 2, 3, 1.
C24_WitnessCycle ==
    /\ pc = "batch"
    /\ stack = <<>>
    /\ scene.parent = <<0, 1, 2>>
    /\ scene.links = <<<<>>, <<>>, <<1>>>>
    /\ tessellated = <<1, 2, 3>>

\* ------------------------------------------------ the types on their own
\* Client code makes at most MaxCalls calls on a Mesh it created, on a
\* MeshAttributesBuilder it created, or (as batch_meshes does) on a
\* RenderBatch it created; render() is applied to a pending list of at most
\* MaxMeshes meshes of any configurations.

\* The vertices of the example of Mesh::add_vertices
DocVertices ==
    << Vertex_with_values(<<F32(0), F32(0), F32(0)>>, <<F32(0), F32(0), F32(0)>>, <<F32(0), F32(0)>>),
       Vertex_with_values(<<F32(1), F32(0), F32(0)>>, <<F32(1), F32(0), F32(0)>>, <<F32(0), F32(0)>>),
       Vertex_with_values(<<F32(0), F32(1), F32(0)>>, <<F32(0), F32(1), F32(0)>>, <<F32(0), F32(0)>>) >>

\* The slices add_vertices and add_indices are called with
VertexSlices == {<<>>, <<DocVertices[2]>>, DocVertices}
IndexSlices == {<<>>, <<0>>, <<0, 1, 2, 2, 0, 3>>}

\* A mesh of one vertex and the index 0
PointMesh ==
    Mesh_add_indices(
        Mesh_add_vertices(Mesh_new(MeshAttributes_defaults), <<DocVertices[1]>>),
        <<0>>)

\* The meshes add_mesh is called with on a batch of the default attributes
ClientMeshes ==
    {PointMesh,
     Mesh_add_indices(Mesh_add_vertices(Mesh_new(MeshAttributes_defaults),
                                        <<DocVertices[1], DocVertices[2]>>), <<0, 1>>),
     render_rectangle_node(RectangleValue).meshes[1]}

\* The configurations a MeshAttributesBuilder builds
Configurations ==
    {[texture_identifier |-> t, font_identifier |-> f, draw_mode |-> d] :
        t \in {None, Some("64x64")}, f \in {None, Some("default_font2")},
        d \in {TRIANGLES, LINES}}

\* The pending lists render() is applied to: meshes of one vertex
PendingLists ==
    UNION {[1..n -> {[PointMesh EXCEPT !.attributes = a] : a \in Configurations}] :
              n \in 0..MaxMeshes}

ClientInit ==
    /\ pc = "idle"
    /\ scene = NoScene
    /\ stack = <<>>
    /\ visited = {}
    /\ client \in {"Mesh", "MeshAttributesBuilder", "RenderBatch", "render"}
    /\ pending_meshes \in IF client = "render" THEN PendingLists ELSE {<<>>}
    /\ pending_batches = <<>>
    /\ mesh_index = 1
    /\ batch_index = 1
    /\ bound_texture = "none"
    /\ blending = FALSE
    /\ mapped = <<>>
    /\ draw_calls = <<>>
    /\ tessellated = <<>>
    /\ added = <<>>
    /\ context = IF client = "RenderBatch"
                    THEN DoAll(Context_new, RenderBatch_new_calls(Context_new))
                    ELSE Context_new
    /\ batch_objects = IF client = "RenderBatch"
                          THEN <<RenderBatch_new_objects(Context_new)>> ELSE <<>>
    /\ gl_calls = <<>>
    /\ client_mesh = IF client = "Mesh"
                        THEN Some(Mesh_new(MeshAttributes_defaults)) ELSE None
    /\ client_builder = IF client = "MeshAttributesBuilder"
                           THEN Some(MeshAttributesBuilder_new) ELSE None
    /\ client_batch = IF client = "RenderBatch"
                         THEN Some(RenderBatch_new(MeshAttributes_defaults)) ELSE None
    /\ client_calls = <<>>

\* mesh.add_vertices(vertices)
MeshAddVertices ==
    /\ client = "Mesh"
    /\ Len(client_calls) < MaxCalls
    /\ \E vertices \in VertexSlices :
          /\ client_mesh' = Some(Mesh_add_vertices(client_mesh[1], vertices))
          /\ client_calls' = Append(client_calls,
                                    [method |-> "add_vertices", argument |-> vertices])
    /\ UNCHANGED <<sceneRendererVars, client, client_builder, client_batch>>

\* mesh.add_indices(indices)
MeshAddIndices ==
    /\ client = "Mesh"
    /\ Len(client_calls) < MaxCalls
    /\ \E indices \in IndexSlices :
          /\ client_mesh' = Some(Mesh_add_indices(client_mesh[1], indices))
          /\ client_calls' = Append(client_calls,
                                    [method |-> "add_indices", argument |-> indices])
    /\ UNCHANGED <<sceneRendererVars, client, client_builder, client_batch>>

\* builder.texture(texture_identifier)
BuilderTexture ==
    /\ client = "MeshAttributesBuilder"
    /\ client_builder # None
    /\ Len(client_calls) < MaxCalls
    /\ \E texture_identifier \in {"64x64", "64x64b"} :
          /\ client_builder' = Some(MeshAttributesBuilder_texture(client_builder[1],
                                                                  texture_identifier))
          /\ client_calls' = Append(client_calls,
                                    [method |-> "texture", argument |-> texture_identifier])
    /\ UNCHANGED <<sceneRendererVars, client, client_mesh, client_batch>>

\* builder.font(font_identifier)
BuilderFont ==
    /\ client = "MeshAttributesBuilder"
    /\ client_builder # None
    /\ Len(client_calls) < MaxCalls
    /\ \E font_identifier \in {"default_font2", "missing_font"} :
          /\ client_builder' = Some(MeshAttributesBuilder_font(client_builder[1],
                                                               font_identifier))
          /\ client_calls' = Append(client_calls,
                                    [method |-> "font", argument |-> font_identifier])
    /\ UNCHANGED <<sceneRendererVars, client, client_mesh, client_batch>>

\* builder.draw_mode(draw_mode)
BuilderDrawMode ==
    /\ client = "MeshAttributesBuilder"
    /\ client_builder # None
    /\ Len(client_calls) < MaxCalls
    /\ \E draw_mode \in {TRIANGLES, LINES} :
          /\ client_builder' = Some(MeshAttributesBuilder_draw_mode(client_builder[1],
                                                                    draw_mode))
          /\ client_calls' = Append(client_calls,
                                    [method |-> "draw_mode", argument |-> draw_mode])
    /\ UNCHANGED <<sceneRendererVars, client, client_mesh, client_batch>>

\* Mesh::new(builder.build()): build consumes the builder.
BuilderBuild ==
    /\ client = "MeshAttributesBuilder"
    /\ client_builder # None
    /\ client_mesh' = Some(Mesh_new(MeshAttributesBuilder_build(client_builder[1])))
    /\ client_builder' = None
    /\ UNCHANGED <<sceneRendererVars, client, client_batch, client_calls>>

\* What a call of add_mesh adds to the history: the mesh and the index
\* cursor of the batch when add_mesh was entered.
AddMeshCall(self, m) ==
    [method |-> "add_mesh", argument |-> m, index_count |-> self.index_count]

\* batch.add_mesh(mesh), the ranges it maps being within the stores
BatchAddMesh ==
    /\ client = "RenderBatch"
    /\ pc = "idle"
    /\ Len(client_calls) < MaxCalls
    /\ \E m \in ClientMeshes :
          /\ add_mesh_in_store(client_batch[1], m)
          /\ client_batch' = Some(add_mesh(client_batch[1], m))
          /\ gl_calls' = add_mesh_calls(batch_objects[1], client_batch[1], m)
          /\ context' = DoAll(context, gl_calls')
          /\ client_calls' = Append(client_calls, AddMeshCall(client_batch[1], m))
    /\ UNCHANGED <<pc, scene, stack, visited, rendererVars, glVars, mapped, historyVars>>
    /\ UNCHANGED <<client, client_mesh, client_builder>>

\* batch.add_mesh(mesh) mapping a range that is not within its store: the
\* process dies at the write through NULL, or add_mesh goes on.
BatchAddMeshOutOfStore ==
    /\ client = "RenderBatch"
    /\ pc = "idle"
    /\ Len(client_calls) < MaxCalls
    /\ \E m \in ClientMeshes :
          /\ ~add_mesh_in_store(client_batch[1], m)
          /\ \/ /\ pc' = "aborted"
                /\ gl_calls' = add_mesh_calls_until_fault(batch_objects[1], client_batch[1], m)
                /\ UNCHANGED <<client_batch, client_calls>>
             \/ /\ pc' = pc
                /\ client_batch' = Some(add_mesh(client_batch[1], m))
                /\ gl_calls' = add_mesh_calls(batch_objects[1], client_batch[1], m)
                /\ client_calls' = Append(client_calls, AddMeshCall(client_batch[1], m))
          /\ context' = DoAll(context, gl_calls')
    /\ UNCHANGED <<scene, stack, visited, rendererVars, glVars, mapped, historyVars>>
    /\ UNCHANGED <<client, client_mesh, client_builder>>

\* render() on the pending list: it starts with sort_meshes, and goes on
\* with batch_meshes and render_batches.  The history keeps the list as it
\* was.
RenderCall ==
    /\ client = "render"
    /\ pc = "idle"
    /\ pending_meshes' = sort_by_key(pending_meshes)
    /\ mesh_index' = 1
    /\ client_calls' = <<[method |-> "render", argument |-> pending_meshes]>>
    /\ pc' = "batch"
    /\ UNCHANGED <<scene, stack, visited, pending_batches, batch_objects, batch_index,
                   glVars, context, mapped, gl_calls, historyVars>>
    /\ UNCHANGED <<client, client_mesh, client_builder, client_batch>>

ClientNext ==
    \/ MeshAddVertices
    \/ MeshAddIndices
    \/ BuilderTexture
    \/ BuilderFont
    \/ BuilderDrawMode
    \/ BuilderBuild
    \/ BatchAddMesh
    \/ BatchAddMeshOutOfStore
    \/ RenderCall
    \/ BatchMesh
    \/ BatchMeshesEnd
    \/ RenderBatch
    \/ RenderBatchesEnd

ClientSpec == ClientInit /\ [][ClientNext]_vars

\* ---------------------------------------- properties of the types on their own

\* The arguments of the calls of a method, in the order of the calls
ArgumentsOf(method) ==
    LET cs == SelectSeq(client_calls, LAMBDA c : c.method = method)
    IN [k \in 1..Len(cs) |-> cs[k].argument]

\* C18: a new mesh has no vertices and no indices; the vertices of a mesh
\* are the slices add_vertices was called with, one after the other in the
\* order of the calls, whatever the calls of add_indices in between, and its
\* indices are the slices add_indices was called with, likewise: each call
\* appends its slice to its own list and leaves the other list and the
\* attributes as they are.
C18_MeshAppends ==
    client = "Mesh" =>
        /\ client_mesh[1].vertices = Concat(ArgumentsOf("add_vertices"))
        /\ client_mesh[1].indices = Concat(ArgumentsOf("add_indices"))
        /\ client_mesh[1].attributes
              = [texture_identifier |-> <<>>, font_identifier |-> <<>>, draw_mode |-> 4]
        /\ client_calls = <<>> =>
              Len(client_mesh[1].vertices) = 0 /\ Len(client_mesh[1].indices) = 0

\* add_vertices of 3 vertices, add_indices of 6 indices, add_vertices of 1
\* vertex: 4 vertices, the last one added last, and 6 indices.
C18_Witness ==
    /\ client = "Mesh"
    /\ Len(client_calls) = 3
    /\ client_calls[1].method = "add_vertices"
    /\ client_calls[2].method = "add_indices"
    /\ client_calls[3].method = "add_vertices"
    /\ Len(client_mesh[1].vertices) = 4
    /\ client_mesh[1].vertices[4].position = <<1024, 0, 0>>
    /\ client_mesh[1].vertices[1].position = <<0, 0, 0>>
    /\ client_mesh[1].indices = <<0, 1, 2, 2, 0, 3>>

\* The configuration the calls made on the builder ask for: for every field
\* the argument of the last call of its setter, or its default.
LastArgument(method, default) ==
    LET as == ArgumentsOf(method)
    IN IF as = <<>> THEN default ELSE as[Len(as)]

Requested ==
    [texture_identifier |->
        IF ArgumentsOf("texture") = <<>> THEN <<>> ELSE <<LastArgument("texture", "")>>,
     font_identifier |->
        IF ArgumentsOf("font") = <<>> THEN <<>> ELSE <<LastArgument("font", "")>>,
     draw_mode |-> LastArgument("draw_mode", 4)]

\* C19: after any sequence of calls of texture, font and draw_mode, the
\* fields of the builder, and of the configuration build yields, are the
\* arguments of the last call of their setters, or the defaults (no
\* texture, no font, Triangles) for the setters never called.
C19_BuilderKeepsLastArguments ==
    client = "MeshAttributesBuilder" =>
        /\ client_builder # <<>> =>
              /\ client_builder[1].texture_identifier = Requested.texture_identifier
              /\ client_builder[1].font_identifier = Requested.font_identifier
              /\ client_builder[1].draw_mode = Requested.draw_mode
              /\ client_mesh = <<>>
        /\ client_builder = <<>> =>
              /\ client_mesh # <<>>
              /\ client_mesh[1].attributes = Requested

\* texture("64x64"), font("default_font2"), texture("64x64b"), then build:
\* texture 64x64b, font default_font2, Triangles.
C19_Witness ==
    /\ client = "MeshAttributesBuilder"
    /\ client_builder = <<>>
    /\ ArgumentsOf("texture") = <<"64x64", "64x64b">>
    /\ ArgumentsOf("font") = <<"default_font2">>
    /\ ArgumentsOf("draw_mode") = <<>>
    /\ client_mesh[1].attributes
          = [texture_identifier |-> <<"64x64b">>,
             font_identifier |-> <<"default_font2">>, draw_mode |-> 4]

\* The indices written to the index buffer of the batch by the call-th call
\* of add_mesh (in the store)
WrittenBy(call) ==
    SubSeq(client_batch[1].ebo.data, client_calls[call].index_count + 1,
           client_calls[call].index_count + Len(client_calls[call].argument.indices))

\* C20: every index of the first mesh added to a batch is written as it
\* is, and every index of a later mesh is written plus one more than the
\* highest index written to the batch before that mesh.
C20_OffsetIsHighestIndexPlusOne ==
    client = "RenderBatch" =>
        \A call \in 1..Len(client_calls) :
            LET m == client_calls[call].argument
                first == client_calls[call].index_count
                before == {client_batch[1].ebo.data[i] : i \in 1..first}
                offset == IF call = 1 THEN 0 ELSE Max(before) + 1
            IN (first + Len(m.indices)) * SizeOfIndex <= client_batch[1].ebo.size
                  => WrittenBy(call) = [j \in 1..Len(m.indices) |-> m.indices[j] + offset]

\* The rank of an Option<String> in its order: None first, then the
\* identifiers in the order of the strings
OptionRank(o) == IF o = <<>> THEN 0 ELSE IdentifierRank(o[1])

\* The lexicographic order of triples of numbers
LexLess(x, y) ==
    \/ x[1] < y[1]
    \/ x[1] = y[1] /\ x[2] < y[2]
    \/ x[1] = y[1] /\ x[2] = y[2] /\ x[3] < y[3]

\* The key of a configuration, draw mode first
DrawModeFirst(a) ==
    <<a.draw_mode, OptionRank(a.texture_identifier), OptionRank(a.font_identifier)>>

\* The key of a configuration, texture identifier first and draw mode last
DrawModeLast(a) ==
    <<OptionRank(a.texture_identifier), OptionRank(a.font_identifier), a.draw_mode>>

\* sort_meshes has been applied to the pending list, which batch_meshes
\* goes through.
Sorted == client = "render" /\ pc = "batch"

\* C21 as claimed: the pending list sort_meshes leaves, and the sequence of
\* the batches, are ascending in the order that compares the draw mode
\* first, then the texture identifier, then the font identifier, None
\* before Some.
C21_SortedByDrawModeFirst ==
    client = "render" =>
        /\ Sorted =>
              \A i, j \in 1..Len(pending_meshes) :
                  i < j => ~LexLess(DrawModeFirst(pending_meshes[j].attributes),
                                    DrawModeFirst(pending_meshes[i].attributes))
        /\ \A b \in 2..Len(pending_batches) :
              LexLess(DrawModeFirst(pending_batches[b - 1].mesh_attributes),
                      DrawModeFirst(pending_batches[b].mesh_attributes))

\* C21 as amended: the pending list sort_meshes leaves holds the meshes it
\* was given and is ascending in the order that compares the texture
\* identifier first, then the font identifier, then the draw mode, None
\* before Some; the sequence of the batches is ascending in that order.
C21_SortedByDrawModeLast ==
    client = "render" =>
        /\ Sorted =>
              /\ Len(pending_meshes) = Len(client_calls[1].argument)
              /\ \A a \in Configurations :
                    Len(MeshesWith(pending_meshes, a))
                        = Len(MeshesWith(client_calls[1].argument, a))
              /\ \A i, j \in 1..Len(pending_meshes) :
                    i < j => ~LexLess(DrawModeLast(pending_meshes[j].attributes),
                                      DrawModeLast(pending_meshes[i].attributes))
        /\ \A b \in 2..Len(pending_batches) :
              LexLess(DrawModeLast(pending_batches[b - 1].mesh_attributes),
                      DrawModeLast(pending_batches[b].mesh_attributes))

\* A textured mesh of lines pushed before an untextured mesh of triangles
\* is sorted after it.
C21_Witness ==
    /\ Sorted
    /\ Len(pending_meshes) = 3
    /\ Len(pending_batches) = 3
    /\ client_calls[1].argument[1].attributes
          = [texture_identifier |-> <<"64x64">>, font_identifier |-> <<>>, draw_mode |-> 1]
    /\ pending_meshes[1].attributes
          = [texture_identifier |-> <<>>, font_identifier |-> <<>>, draw_mode |-> 4]
    /\ pending_meshes[3].attributes
          = [texture_identifier |-> <<"64x64">>, font_identifier |-> <<>>, draw_mode |-> 1]

\* The batch render_batches has drawn last; the GL context has not changed
\* since its draw call.
DrawnLast == pending_batches[batch_index - 1]

\* C25: when the draw call of a batch is issued, if the configuration of
\* the batch has a font identifier, blending is enabled and the texture
\* bound is the atlas of that font, also if the configuration has a texture
\* identifier; the texture of the configuration is bound if it has a
\* texture identifier and no font identifier; and a draw call is issued
\* for the batch then.
C25_FontTextureInPreference ==
    (client = "render" /\ pc = "render" /\ batch_index > 1) =>
        LET a == DrawnLast.mesh_attributes
        IN /\ Len(draw_calls) = batch_index - 1
           /\ a.font_identifier # <<>> =>
                 /\ blending
                 /\ bound_texture = "atlas:default_font2"
           /\ (a.font_identifier = <<>> /\ a.texture_identifier # <<>>) =>
                 bound_texture = "texture:64x64"
           /\ bound_texture = "texture:64x64" =>
                 \E b \in 1..(batch_index - 1) :
                     /\ pending_batches[b].mesh_attributes.font_identifier = <<>>
                     /\ pending_batches[b].mesh_attributes.texture_identifier = <<"64x64">>

\* A batch with a texture and a font has been drawn after a batch with that
\* texture only: the atlas of the font is bound.
C25_Witness ==
    /\ client = "render"
    /\ pc = "render"
    /\ batch_index = 3
    /\ pending_batches[1].mesh_attributes.texture_identifier = <<"64x64">>
    /\ pending_batches[1].mesh_attributes.font_identifier = <<>>
    /\ pending_batches[2].mesh_attributes.texture_identifier = <<"64x64">>
    /\ pending_batches[2].mesh_attributes.font_identifier = <<"default_font2">>
    /\ bound_texture = "atlas:default_font2"
    /\ blending

\* C26: the texture bound for a batch is unbound after the draw call of the
\* batch: when a batch with neither texture nor font has been drawn, and
\* when render_scene has returned, no texture is bound.
C26_TextureUnboundAfterDraw ==
    /\ pc = "done" => bound_texture = "none"
    /\ (pc = "render" /\ batch_index > 1) =>
          LET a == DrawnLast.mesh_attributes
          IN (a.texture_identifier = <<>> /\ a.font_identifier = <<>>)
                 => bound_texture = "none"

====
